---- MODULE Spec2Model ----
(***************************************************************************)
(* Dependency-graph leveler (dag/traversal) and leveled executor           *)
(* (dag/executor) of client-lib.                                           *)
(*                                                                         *)
(* A graph is a Map name -> DAGNode.  Node names are 1..NumNodes, kept in  *)
(* the Map's insertion order; ExternalName is a package name that is not a *)
(* key of the Map.  A node's `dependencies` is an array of names, so it is *)
(* a sequence: it may repeat a name and may hold names outside the Map.    *)
(***************************************************************************)
EXTENDS Integers, Sequences, FiniteSets, TLC

\* ------------------------------------------------------------------ bounds
NumNodes == 3
MaxExtraDeps == 1
MaxConcurrency == 2

Nodes == 1..NumNodes
ExternalName == 0
Names == Nodes \cup {ExternalName}

VARIABLES
    dependencies,   \* node.dependencies of every node of the Map
    dag,            \* what buildLeveledDAG returned (or threw)
    concurrency,    \* options.concurrency
    failFast,       \* options.failFast
    wrapped,        \* TRUE: the processor is createProcessor(fn); FALSE: a raw processor
    callbacks,      \* options.onNodeStart and options.onNodeComplete: what they do
    pc,             \* position of the caller / of executeDAG
    levelIdx,       \* index of the level the for-loop of executeDAG is at
    shouldStop,     \* executeDAG: shouldStop
    results,        \* executeDAG: results (Map name -> NodeResult)
    failedNodes,    \* executeDAG: failedNodes
    success,        \* DAGResult.success once returned
    itemIdx,        \* executeWithConcurrency: next item of the for-loop
    executing,      \* executeWithConcurrency: the `executing` Set (by node)
    levelResults,   \* executeWithConcurrency: the `results` array
    awaiting,       \* the promise executeWithConcurrency awaits
    proc,           \* per node: stage of fn(node) and the value it settles with
    started         \* per node: number of processor invocations

\* the state of one run of executeAggregation(aggregation, input, client)
VARIABLES
    aggregation,    \* the aggregation definition being executed (the root step)
    context,        \* executeAggregation: context (key -> value)
    frames,         \* the invocations of executeStep, by position in the definition
    calls,          \* the client's call log: calls.push({ path, input })
    clock           \* number of steps of the run so far (orders begin and end of frames)

aggVars == <<aggregation, context, frames, calls, clock>>

dagVars == <<dependencies, dag, concurrency, failFast, wrapped, callbacks, pc,
             levelIdx,
             shouldStop, results, failedNodes, success, itemIdx, executing,
             levelResults, awaiting, proc, started>>

\* the state of one call of libRefresh in --all mode
VARIABLES
    refreshed,      \* per package: what refreshSinglePackage returned for it
    refreshOutput   \* what libRefresh returned

refreshVars == <<refreshed, refreshOutput>>

\* the state of one call of resolveInput(obj) in a context
VARIABLES
    resolveArg,     \* the call: [obj |-> what is resolved, ctx |-> the context]
    resolveResult   \* what the call returned, <<>> before it returns

resolveVars == <<resolveArg, resolveResult>>

\* the state of one call of refreshSinglePackage(pkgPath, packageName, ctx, options)
VARIABLES
    refreshing      \* options, the statement it is at, its calls and its result

singleVars == <<refreshing>>

\* the state of libInstall(input, ctx), called once and then once more
VARIABLES
    disk,           \* the packages whose directory exists
    installRun      \* input, phase, loop index, cloned, skipped, errors, output

installVars == <<disk, installRun>>

\* the directories there are, for aggregations run against a file system
VARIABLES
    folders,        \* the paths that exist
    ensureRun       \* which invocation this is, and the folders at its start

fsVars == <<folders, ensureRun>>

\* the state of one call of libNew(input, ctx)
VARIABLES
    creating        \* input, the statement it is at, its calls and its result

newVars == <<creating>>

\* the state of one call of dagTraverse(input, ctx)
VARIABLES
    traversing      \* input, the Map it came to, the results pushed, its output

traverseVars == <<traversing>>

\* the state of one call of executeCommand(command, args, options)
VARIABLES
    spawned         \* the helper called, its timer, the process and the promise

commandVars == <<spawned>>

\* the aggregation registry: one lookup, one registration of all entries
VARIABLES
    found,          \* getAggregation(path): the path asked for and what it returned
    registering     \* registerAggregationProcedures: options, loop index, its lists

registryVars == <<found, registering>>

\* the state of one call of filterDAGFromRoot(nodes, rootName)
VARIABLES
    filtering       \* the root asked for and the Map returned

filterVars == <<filtering>>

\* a tree of files under lib.rename: renamed, then renamed back
VARIABLES
    renaming        \* the names, the files as they were and as they are

renameVars == <<renaming>>

\* the state of one call of coreCatch(input, ctx)
VARIABLES
    catching        \* input, the statement it is at, its calls and how it ended

catchVars == <<catching>>

otherVars == <<resolveVars, singleVars, installVars, fsVars, newVars, traverseVars,
               commandVars, registryVars, filterVars, renameVars, catchVars>>

\* all the variables but those of one group
exceptResolve ==
    <<dagVars, aggVars, refreshVars, singleVars, installVars, fsVars, newVars,
     traverseVars, commandVars,
     registryVars, filterVars, renameVars, catchVars>>
exceptSingle ==
    <<dagVars, aggVars, refreshVars, resolveVars, installVars, fsVars, newVars,
     traverseVars, commandVars,
     registryVars, filterVars, renameVars, catchVars>>
exceptInstall == <<aggVars, refreshVars, resolveVars, singleVars, fsVars, newVars,
     traverseVars, commandVars,
     registryVars, filterVars, renameVars, catchVars>>
exceptFs == <<dagVars, refreshVars, resolveVars, singleVars, installVars, newVars,
     traverseVars, commandVars,
     registryVars, filterVars, renameVars, catchVars>>
exceptNew ==
    <<dagVars, aggVars, refreshVars, resolveVars, singleVars, installVars, fsVars,
     traverseVars, commandVars,
     registryVars, filterVars, renameVars, catchVars>>

exceptTraverse ==
    <<aggVars, refreshVars, resolveVars, singleVars, installVars, fsVars, newVars,
     commandVars,
     registryVars, filterVars, renameVars, catchVars>>
exceptCommand ==
    <<dagVars, aggVars, refreshVars, resolveVars, singleVars, installVars, fsVars,
     newVars, traverseVars,
     registryVars, filterVars, renameVars, catchVars>>

exceptRegistry ==
    <<dagVars, aggVars, refreshVars, resolveVars, singleVars, installVars, fsVars,
     newVars, traverseVars, commandVars,
     filterVars, renameVars, catchVars>>
exceptFilter ==
    <<dagVars, aggVars, refreshVars, resolveVars, singleVars, installVars, fsVars,
     newVars, traverseVars, commandVars,
     registryVars, renameVars, catchVars>>
exceptRename ==
    <<dagVars, aggVars, refreshVars, resolveVars, singleVars, installVars, fsVars,
     newVars, traverseVars, commandVars,
     registryVars, filterVars, catchVars>>
exceptCatch ==
    <<dagVars, aggVars, refreshVars, resolveVars, singleVars, installVars, fsVars,
     newVars, traverseVars, commandVars,
     registryVars, filterVars, renameVars>>

vars == <<dagVars, aggVars, refreshVars, otherVars>>

\* resolveInput is not called
NoResolve ==
    /\ resolveArg = <<>>
    /\ resolveResult = <<>>

\* refreshSinglePackage is not called
NoSingle == refreshing = <<>>

\* libInstall is not called
NoInstall ==
    /\ disk = {}
    /\ installRun = <<>>

\* no aggregation is run against a file system
NoFs ==
    /\ folders = {}
    /\ ensureRun = <<>>

\* libNew is not called
NoNew == creating = <<>>

\* dagTraverse is not called
NoTraverse == traversing = <<>>

\* no command is executed
NoCommand == spawned = <<>>

\* the registry is not used
NoRegistry ==
    /\ found = <<>>
    /\ registering = <<>>

\* filterDAGFromRoot is not called
NoFilter == filtering = <<>>

\* nothing is renamed
NoRename == renaming = <<>>

\* coreCatch is not called
NoCatch == catching = <<>>

NoOther ==
    /\ NoResolve /\ NoSingle /\ NoInstall /\ NoFs /\ NoNew /\ NoTraverse /\ NoCommand
    /\ NoRegistry /\ NoFilter /\ NoRename /\ NoCatch

\* no aggregation is run and libRefresh is not called
NoRun ==
    /\ aggregation = <<>>
    /\ context = <<>>
    /\ frames = <<>>
    /\ calls = <<>>
    /\ clock = 0
    /\ refreshed = <<>>
    /\ refreshOutput = <<>>

\* ------------------------------------------------------------ sequences
Range(s) == {s[i] : i \in DOMAIN s}

SeqsUpTo(S, n) == UNION {[1..k -> S] : k \in 0..n}

RECURSIVE Flatten(_)
Flatten(ss) == IF ss = <<>> THEN <<>> ELSE Head(ss) \o Flatten(Tail(ss))

Count(s, x) == Cardinality({i \in DOMAIN s : s[i] = x})

\* [...nodes.keys()]: the keys of the Map in insertion order
NodeKeys == [i \in 1..NumNodes |-> i]

\* ------------------------------------------------- dag/traversal.js
\* nodes.has(dep)
NodesHas(dep) == dep \in Nodes

\* node.dependencies.filter((dep) => nodes.has(dep))
DepsInDag(deps, n) == SelectSeq(deps[n], NodesHas)

InDegreeFlagOnly(deps, n) == IF Len(DepsInDag(deps, n)) > 0 THEN 1 ELSE 0

\* inDegree.set(name, depsInDag.length)
InitialInDegree(deps, n) == Len(DepsInDag(deps, n))

\* dependents.get(dep): a Set, iterated in insertion order; a name is
\* inserted when the outer loop reaches it, once however often it lists dep
Dependents(deps, dep) ==
    SelectSeq(NodeKeys, LAMBDA name : dep \in Range(deps[name]))

\* newDegree === 0
NewDegreeIsZero(newDegree) == newDegree = 0

\* for (const dependent of dependents.get(name) ?? []) { ... }
RECURSIVE DecrementDependents(_, _)
DecrementDependents(ds, st) ==
    IF ds = <<>> THEN st
    ELSE LET dependent == Head(ds)
             newDegree == st.inDegree[dependent] - 1
         IN DecrementDependents(Tail(ds),
              [st EXCEPT !.inDegree[dependent] = newDegree,
                         !.nextQueue = IF NewDegreeIsZero(newDegree)
                                       THEN Append(@, dependent) ELSE @])

\* for (const name of queue) { ... }
RECURSIVE ProcessQueue(_, _, _, _)
ProcessQueue(deps, queue, currentLevel, st) ==
    IF queue = <<>> THEN st
    ELSE LET name == Head(queue)
             st1 == [st EXCEPT !.nodeLevel[name] = currentLevel,
                               !.levelNodes = Append(@, name),
                               !.processedCount = @ + 1]
         IN ProcessQueue(deps, Tail(queue), currentLevel,
                         DecrementDependents(Dependents(deps, name), st1))

\* while (queue.length > 0) { ... }
RECURSIVE KahnLoop(_, _, _)
KahnLoop(deps, queue, st) ==
    IF Len(queue) = 0 THEN st
    ELSE LET currentLevel == Len(st.levels)
             st1 == ProcessQueue(deps, queue, currentLevel,
                      [inDegree |-> st.inDegree, nodeLevel |-> st.nodeLevel,
                       processedCount |-> st.processedCount,
                       levelNodes |-> <<>>, nextQueue |-> <<>>])
         IN KahnLoop(deps, st1.nextQueue,
                     [inDegree |-> st1.inDegree, nodeLevel |-> st1.nodeLevel,
                      processedCount |-> st1.processedCount,
                      levels |-> Append(st.levels, st1.levelNodes)])

\* nodeLevel.has(n): -1 stands for "no entry"
NoLevel == -1

NeverEmittedNone(nodeLevel, n) == FALSE

\* !nodeLevel.has(n)
NeverEmitted(nodeLevel, n) == nodeLevel[n] = NoLevel

CycleNeverDetected(processedCount, size) == FALSE

\* processedCount !== nodes.size
CycleDetected(processedCount, size) == processedCount # size

buildLeveledDAG(deps) ==
    LET inDegree == [n \in Nodes |-> InitialInDegree(deps, n)]
        queue == SelectSeq(NodeKeys, LAMBDA name : inDegree[name] = 0)
        st == KahnLoop(deps, queue,
                [inDegree |-> inDegree, nodeLevel |-> [n \in Nodes |-> NoLevel],
                 processedCount |-> 0, levels |-> <<>>])
    IN IF CycleDetected(st.processedCount, NumNodes)
       THEN [status |-> "cycle", levels |-> <<>>, nodeLevel |-> st.nodeLevel,
             cycleNodes |-> SelectSeq(NodeKeys,
                               LAMBDA n : NeverEmitted(st.nodeLevel, n)),
             inDegree |-> st.inDegree, roots |-> <<>>, leaves |-> <<>>]
       ELSE [status |-> "ok", levels |-> st.levels, nodeLevel |-> st.nodeLevel,
             cycleNodes |-> <<>>, inDegree |-> st.inDegree,
             roots |-> SelectSeq(NodeKeys,
                          LAMBDA name : Len(Dependents(deps, name)) = 0),
             leaves |-> SelectSeq(NodeKeys,
                          LAMBDA name : Len(DepsInDag(deps, name)) = 0)]

NoDag == [status |-> "none", levels |-> <<>>,
          nodeLevel |-> [n \in Nodes |-> NoLevel], cycleNodes |-> <<>>,
          inDegree |-> [n \in Nodes |-> 0], roots |-> <<>>, leaves |-> <<>>]

\* ------------------------------------------------- dag/executor.js
NoResult == [node |-> ExternalName, success |-> FALSE, error |-> "none"]
OkResult(node) == [node |-> node, success |-> TRUE, error |-> "none"]
FailResult(node) == [node |-> node, success |-> FALSE, error |-> "Error"]

\* the synthetic result of the early return in the per-node function
SkippedResult(node) ==
    [node |-> node, success |-> FALSE, error |-> "Skipped due to earlier failure"]

\* createProcessor(fn)(node): try { await fn(node); ... } catch { ... }
createProcessor(fnOutcome, node) ==
    IF fnOutcome = "returns" THEN OkResult(node) ELSE FailResult(node)

IdleProc == [stage |-> "idle", outcome |-> "none", result |-> NoResult]

NoAwait == [kind |-> "none", set |-> {}, state |-> "pending"]

IsRejected(p) == p.stage = "done" /\ p.outcome = "rejected"
IsResolved(p) == p.stage = "done" /\ p.outcome = "fulfilled"

\* Promise.race(executing): settles as its first settled member does.  A
\* fulfilled member has already left `executing`, so a member that is
\* settled when the race is created is a rejected one.
PromiseRace(set, pr) ==
    [kind |-> "race", set |-> set,
     state |-> IF \E n \in set : IsRejected(pr[n]) THEN "rejected" ELSE "pending"]

\* Promise.all(executing)
PromiseAll(set, pr) ==
    [kind |-> "all", set |-> set,
     state |-> IF \E n \in set : IsRejected(pr[n]) THEN "rejected"
               ELSE IF \A n \in set : IsResolved(pr[n]) THEN "fulfilled"
               ELSE "pending"]

NoPromiseAll(set, pr) == [kind |-> "all", set |-> set, state |-> "fulfilled"]

\* await Promise.all(executing) at the end of executeWithConcurrency
AwaitAll(set, pr) == PromiseAll(set, pr)

LimitExceeded(size, limit) == size > limit

\* executing.size >= limit
LimitReached(size, limit) == size >= limit

\* what a callback of the options does when called; "absent" is an option
\* that is not given
CallbackBehaviours == {"absent", "returns", "throws"}

\* executeDAG(dag, processor, { concurrency, failFast })
NoCallbacks == [onNodeStart |-> "absent", onNodeComplete |-> "absent"]

\* the per-node function handed to executeWithConcurrency, up to its first
\* await: the shouldStop test, onNodeStart, the call of processor(node); a
\* throw of onNodeStart rejects the promise of the function, and processor
\* is not called
InvokeFn(node, stop, st) ==
    IF stop
    THEN [st EXCEPT !.proc[node] = [stage |-> "settled", outcome |-> "fulfilled",
                                    result |-> SkippedResult(node)]]
    ELSE IF callbacks.onNodeStart = "throws"
    THEN [st EXCEPT !.proc[node] = [stage |-> "settled", outcome |-> "rejected",
                                    result |-> NoResult]]
    ELSE [st EXCEPT !.proc[node] = [stage |-> "running", outcome |-> "none",
                                    result |-> NoResult],
                    !.started[node] = @ + 1]

\* for (const item of items) { ... } of executeWithConcurrency, run from
\* item idx up to the next await
RECURSIVE ForItems(_, _, _, _, _)
ForItems(items, idx, limit, stop, st) ==
    IF idx > Len(items)
    THEN [st EXCEPT !.itemIdx = idx, !.awaiting = AwaitAll(st.executing, st.proc)]
    ELSE LET node == items[idx]
             st1 == InvokeFn(node, stop, st)
             st2 == [st1 EXCEPT !.executing = @ \cup {node}]
         IN IF LimitReached(Cardinality(st2.executing), limit)
            THEN [st2 EXCEPT !.itemIdx = idx + 1,
                             !.awaiting = PromiseRace(st2.executing, st2.proc)]
            ELSE ForItems(items, idx + 1, limit, stop, st2)

CollectIgnoringFailFast(ff) == TRUE

\* if (failFast) { shouldStop = true; }
StopOnFailure(ff) == ff

\* for (const result of levelResults) { ... } of executeDAG
RECURSIVE Collect(_, _, _)
Collect(rs, ff, st) ==
    IF rs = <<>> THEN st
    ELSE LET result == Head(rs)
             st1 == [st EXCEPT !.results = (result.node :> result) @@ @]
             st2 == IF ~result.success
                    THEN [st1 EXCEPT !.failedNodes = Append(@, result.node),
                                     !.shouldStop = IF StopOnFailure(ff) THEN TRUE ELSE @]
                    ELSE st1
         IN Collect(Tail(rs), ff, st2)

AlwaysSuccess(failed) == TRUE

\* success: failedNodes.length === 0
OverallSuccess(failed) == Len(failed) = 0

\* ------------------------------------------------------------ actions
execVars == <<concurrency, failFast, wrapped, callbacks>>

\* the caller levels the graph: const dag = buildLeveledDAG(nodes)
BuildLeveledDAG ==
    /\ pc = "init"
    /\ dag' = buildLeveledDAG(dependencies)
    /\ pc' = IF dag'.status = "ok" THEN "planned" ELSE "threw"
    /\ UNCHANGED <<aggVars, refreshVars, otherVars>>
    /\ UNCHANGED <<dependencies, execVars, levelIdx, shouldStop, results,
                   failedNodes, success, itemIdx, executing, levelResults,
                   awaiting, proc, started>>

\* executeDAG(dag, processor, options) up to the level loop
ExecuteDAG ==
    /\ pc = "planned"
    /\ results' = <<>>
    /\ failedNodes' = <<>>
    /\ shouldStop' = FALSE
    /\ levelIdx' = 1
    /\ pc' = "levelLoop"
    /\ UNCHANGED <<aggVars, refreshVars, otherVars>>
    /\ UNCHANGED <<dependencies, dag, execVars, success, itemIdx, executing,
                   levelResults, awaiting, proc, started>>

LoopEnds == levelIdx > Len(dag.levels) \/ shouldStop

\* for (const level of dag.levels) { if (shouldStop) break;
\*   ... executeWithConcurrency(level, fn, concurrency) up to its first await
StartLevel ==
    /\ pc = "levelLoop"
    /\ ~LoopEnds
    /\ LET st == ForItems(dag.levels[levelIdx], 1, concurrency, shouldStop,
                    [itemIdx |-> 1, executing |-> {}, awaiting |-> NoAwait,
                     proc |-> proc, started |-> started])
       IN /\ itemIdx' = st.itemIdx
          /\ executing' = st.executing
          /\ awaiting' = st.awaiting
          /\ proc' = st.proc
          /\ started' = st.started
    /\ levelResults' = <<>>
    /\ pc' = "awaiting"
    /\ UNCHANGED <<aggVars, refreshVars, otherVars>>
    /\ UNCHANGED <<dependencies, dag, execVars, levelIdx, shouldStop, results,
                   failedNodes, success>>

\* return { success: failedNodes.length === 0, results, failedNodes, ... }
Return ==
    /\ pc = "levelLoop"
    /\ LoopEnds
    /\ success' = OverallSuccess(failedNodes)
    /\ pc' = "returned"
    /\ UNCHANGED <<aggVars, refreshVars, otherVars>>
    /\ UNCHANGED <<dependencies, dag, execVars, levelIdx, shouldStop, results,
                   failedNodes, itemIdx, executing, levelResults, awaiting,
                   proc, started>>

\* onNodeComplete?.(result); return result: a throw of onNodeComplete
\* rejects the promise of the per-node function
AfterOnNodeComplete(p) ==
    IF callbacks.onNodeComplete = "throws"
    THEN [p EXCEPT !.outcome = "rejected", !.result = NoResult]
    ELSE p

\* the promise returned by processor(node) settles
ProcessorSettles(node) ==
    /\ proc[node].stage = "running"
    /\ \/ /\ wrapped
          /\ \E fnOutcome \in {"returns", "throws"} :
                proc' = [proc EXCEPT ![node] = AfterOnNodeComplete(
                           [stage |-> "settled", outcome |-> "fulfilled",
                            result |-> createProcessor(fnOutcome, node)])]
       \/ /\ ~wrapped
          /\ \E r \in {OkResult(node), FailResult(node)} :
                proc' = [proc EXCEPT ![node] = AfterOnNodeComplete(
                           [stage |-> "settled", outcome |-> "fulfilled",
                            result |-> r])]
       \/ /\ ~wrapped
          /\ proc' = [proc EXCEPT ![node] =
                        [stage |-> "settled", outcome |-> "rejected",
                         result |-> NoResult]]
    /\ UNCHANGED <<aggVars, refreshVars, otherVars>>
    /\ UNCHANGED <<dependencies, dag, execVars, pc, levelIdx, shouldStop,
                   results, failedNodes, success, itemIdx, executing,
                   levelResults, awaiting, started>>

\* what the awaited race / all becomes when the wrapper promise of node settles
AwaitAfter(aw, node, pr) ==
    IF aw.state # "pending" \/ node \notin aw.set THEN aw
    ELSE IF IsRejected(pr[node]) THEN [aw EXCEPT !.state = "rejected"]
    ELSE IF aw.kind = "race" THEN [aw EXCEPT !.state = "fulfilled"]
    ELSE IF \A n \in aw.set : IsResolved(pr[n]) THEN [aw EXCEPT !.state = "fulfilled"]
    ELSE aw

\* fn(item) has settled: onNodeComplete, then the .then callback
\* (results.push(result); executing.delete(promise)); a rejection passes
\* through .then and leaves the promise in `executing`
ThenCallback(node) ==
    /\ proc[node].stage = "settled"
    /\ proc' = [proc EXCEPT ![node].stage = "done"]
    /\ IF proc[node].outcome = "fulfilled"
       THEN /\ levelResults' = Append(levelResults, proc[node].result)
            /\ executing' = executing \ {node}
       ELSE UNCHANGED <<levelResults, executing>>
    /\ awaiting' = AwaitAfter(awaiting, node, proc')
    /\ UNCHANGED <<aggVars, refreshVars, otherVars>>
    /\ UNCHANGED <<dependencies, dag, execVars, pc, levelIdx, shouldStop,
                   results, failedNodes, success, itemIdx, started>>

\* await Promise.race(executing) is over: the for-loop goes on
ResumeAfterRace ==
    /\ pc = "awaiting"
    /\ awaiting.kind = "race"
    /\ awaiting.state = "fulfilled"
    /\ LET st == ForItems(dag.levels[levelIdx], itemIdx, concurrency, shouldStop,
                    [itemIdx |-> itemIdx, executing |-> executing,
                     awaiting |-> NoAwait, proc |-> proc, started |-> started])
       IN /\ itemIdx' = st.itemIdx
          /\ executing' = st.executing
          /\ awaiting' = st.awaiting
          /\ proc' = st.proc
          /\ started' = st.started
    /\ UNCHANGED <<aggVars, refreshVars, otherVars>>
    /\ UNCHANGED <<dependencies, dag, execVars, pc, levelIdx, shouldStop,
                   results, failedNodes, success, levelResults>>

\* await Promise.all(executing) is over: executeWithConcurrency returns and
\* executeDAG collects the level's results
CollectLevel ==
    /\ pc = "awaiting"
    /\ awaiting.kind = "all"
    /\ awaiting.state = "fulfilled"
    /\ LET st == Collect(levelResults, failFast,
                    [results |-> results, failedNodes |-> failedNodes,
                     shouldStop |-> shouldStop])
       IN /\ results' = st.results
          /\ failedNodes' = st.failedNodes
          /\ shouldStop' = st.shouldStop
    /\ levelIdx' = levelIdx + 1
    /\ awaiting' = NoAwait
    /\ pc' = "levelLoop"
    /\ UNCHANGED <<aggVars, refreshVars, otherVars>>
    /\ UNCHANGED <<dependencies, dag, execVars, success, itemIdx, executing,
                   levelResults, proc, started>>

\* the awaited race / all rejected: executeWithConcurrency throws and so
\* does executeDAG, which has no try/catch
Rejects ==
    /\ pc = "awaiting"
    /\ awaiting.state = "rejected"
    /\ pc' = "rejected"
    /\ UNCHANGED <<aggVars, refreshVars, otherVars>>
    /\ UNCHANGED <<dependencies, dag, execVars, levelIdx, shouldStop, results,
                   failedNodes, success, itemIdx, executing, levelResults,
                   awaiting, proc, started>>

\* ------------------------------------------------------ specifications
InitExecutorState ==
    /\ dag = NoDag
    /\ pc = "init"
    /\ levelIdx = 0
    /\ shouldStop = FALSE
    /\ results = <<>>
    /\ failedNodes = <<>>
    /\ success = FALSE
    /\ itemIdx = 0
    /\ executing = {}
    /\ levelResults = <<>>
    /\ awaiting = NoAwait
    /\ proc = [n \in Nodes |-> IdleProc]
    /\ started = [n \in Nodes |-> 0]

\* the names of a set as an array, in ascending order
RECURSIVE SortedSeq(_)
SortedSeq(S) ==
    IF S = {} THEN <<>>
    ELSE LET m == CHOOSE x \in S : \A y \in S : x <= y
         IN <<m>> \o SortedSeq(S \ {m})

\* graphs as buildDAGNodes makes them from packages that list each
\* dependency once: names of the Map only, none repeated, no self-dependency
PlainDependencies ==
    {d \in [Nodes -> {SortedSeq(S) : S \in SUBSET Nodes}] :
        \A n \in Nodes : n \notin Range(d[n])}

\* further entries pushed onto dependency arrays: each is <<node, name>>,
\* where name may repeat an entry, be the node itself or be outside the Map
RECURSIVE AddExtras(_, _)
AddExtras(deps, extras) ==
    IF extras = <<>> THEN deps
    ELSE LET e == Head(extras)
         IN AddExtras([deps EXCEPT ![e[1]] = Append(@, e[2])], Tail(extras))

\* executeDAG is not called
NoDagRun ==
    /\ dependencies = [n \in Nodes |-> <<>>]
    /\ concurrency = 1
    /\ failFast = TRUE
    /\ wrapped = TRUE
    /\ callbacks = NoCallbacks
    /\ InitExecutorState

Init ==
    /\ dependencies \in PlainDependencies
    /\ concurrency \in 1..MaxConcurrency
    /\ failFast \in BOOLEAN
    /\ wrapped \in BOOLEAN
    /\ callbacks = NoCallbacks
    /\ InitExecutorState
    /\ NoRun
    /\ NoOther

Next ==
    \/ BuildLeveledDAG
    \/ ExecuteDAG
    \/ StartLevel
    \/ Return
    \/ \E node \in Nodes : ProcessorSettles(node)
    \/ \E node \in Nodes : ThenCallback(node)
    \/ ResumeAfterRace
    \/ CollectLevel
    \/ Rejects

Spec == Init /\ [][Next]_vars

\* executeDAG with a processor made by createProcessor and callbacks that
\* return or throw, on the graphs of packages that each depend on at most
\* one package before them
InitCallbacks ==
    /\ dependencies \in {d \in PlainDependencies :
          \A n \in Nodes : Len(d[n]) <= 1 /\ \A m \in Range(d[n]) : m < n}
    /\ concurrency \in 1..MaxConcurrency
    /\ failFast \in BOOLEAN
    /\ wrapped = TRUE
    /\ callbacks \in [onNodeStart : CallbackBehaviours,
                      onNodeComplete : CallbackBehaviours]
    /\ InitExecutorState
    /\ NoRun
    /\ NoOther

SpecCallbacks == InitCallbacks /\ [][Next]_vars

\* executeDAG on the graphs of packages that each depend on at most one
\* package before them, with either kind of processor.  The event loop runs
\* every continuation that is ready and every started processor settles:
\* a step that can be taken is taken
InitPool ==
    /\ dependencies \in {d \in PlainDependencies :
          \A n \in Nodes : Len(d[n]) <= 1 /\ \A m \in Range(d[n]) : m < n}
    /\ concurrency \in 1..MaxConcurrency
    /\ failFast \in BOOLEAN
    /\ wrapped \in BOOLEAN
    /\ callbacks = NoCallbacks
    /\ InitExecutorState
    /\ NoRun
    /\ NoOther

SpecPool == InitPool /\ [][Next]_vars /\ WF_vars(Next)

\* the leveler alone, on every Map whose dependency arrays hold, besides a
\* plain dependency list, at most MaxExtraDeps further entries in all
InitLeveler ==
    /\ \E d \in PlainDependencies, e \in SeqsUpTo(Nodes \X Names, MaxExtraDeps) :
          dependencies = AddExtras(d, e)
    /\ concurrency = 1
    /\ failFast = TRUE
    /\ wrapped = TRUE
    /\ callbacks = NoCallbacks
    /\ InitExecutorState
    /\ NoRun
    /\ NoOther

NextLeveler == BuildLeveledDAG

SpecLeveler == InitLeveler /\ [][NextLeveler]_vars

\* ------------------------------------- aggregations: values and references
\* The values an aggregation handles, tagged by kind.  A reference is
\* { $ref: "a.b", invert? } with the path already split at the dots; a step is
\* { $proc, $name?, input? }, with name "" and input Undefined when absent.
\* A string that includes "{{" is a template: its text is cut into parts, a
\* Str for the text between substitutions and a Ref for each {{path}}.
Undefined == [t |-> "undefined"]
Bool(b) == [t |-> "boolean", b |-> b]
Str(s) == [t |-> "string", s |-> s]
Num(n) == [t |-> "number", n |-> n]
Arr(a) == [t |-> "array", a |-> a]
Obj(f) == [t |-> "object", f |-> f]
Ref(path) == [t |-> "ref", path |-> path, invert |-> FALSE]
NotRef(path) == [t |-> "ref", path |-> path, invert |-> TRUE]
Step(p, name, input) == [t |-> "step", proc |-> p, name |-> name, input |-> input]
Template(parts) == [t |-> "template", parts |-> parts]

\* an Error: new Error(message) of a throw step (proc <<>>), or the error a
\* call of the procedure proc failed with
Error(message, p) == [t |-> "error", message |-> message, proc |-> p]

\* value.key of a plain object; undefined for a missing key
Field(value, key) ==
    IF value.t = "object" /\ key \in DOMAIN value.f THEN value.f[key]
    ELSE Undefined

\* the truthiness JavaScript gives a value in `if (value)` and `!value`
Truthy(value) ==
    CASE value.t = "boolean" -> value.b
      [] value.t = "undefined" -> FALSE
      [] value.t = "string" -> value.s # ""
      [] value.t = "number" -> value.n # 0
      [] OTHER -> TRUE

\* for (const part of parts) { if (value == null || typeof value !== "object")
\*   return undefined; value = value[part]; }  return value
RECURSIVE WalkPath(_, _)
WalkPath(value, parts) ==
    IF parts = <<>> THEN value
    ELSE IF value.t \notin {"object", "array", "ref", "step", "error"} THEN Undefined
    ELSE WalkPath(Field(value, Head(parts)), Tail(parts))

\* resolveRef(ref), the context being a function from its keys to values
resolveRef(ctx, path) == WalkPath(Obj(ctx), path)

\* String(value)
RECURSIVE StringOf(_)
RECURSIVE Join(_)
StringOf(value) ==
    CASE value.t = "string" -> value.s
      [] value.t = "number" -> ToString(value.n)
      [] value.t = "boolean" -> IF value.b THEN "true" ELSE "false"
      [] value.t = "undefined" -> "undefined"
      [] value.t = "array" -> Join(value.a)
      [] value.t = "error" -> "Error: " \o StringOf(value.message)
      [] OTHER -> "[object Object]"

\* Array.prototype.join(","): undefined elements give the empty string
Join(a) ==
    IF a = <<>> THEN ""
    ELSE LET first == IF Head(a).t = "undefined" THEN "" ELSE StringOf(Head(a))
         IN IF Len(a) = 1 THEN first ELSE first \o "," \o Join(Tail(a))

\* the string made of the parts: adjacent texts are one text, and a string
\* that still includes "{{" is still a template
RECURSIVE Merge(_, _)
Merge(parts, done) ==
    IF parts = <<>> THEN done
    ELSE LET part == Head(parts)
         IN IF part.t = "string" /\ part.s = "" THEN Merge(Tail(parts), done)
            ELSE IF part.t = "string" /\ done # <<>> /\ done[Len(done)].t = "string"
            THEN Merge(Tail(parts),
                       [done EXCEPT ![Len(done)] = Str(@.s \o part.s)])
            ELSE Merge(Tail(parts), Append(done, part))

StringFrom(parts) ==
    LET merged == Merge(parts, <<>>)
    IN IF merged = <<>> THEN Str("")
       ELSE IF Len(merged) = 1 /\ merged[1].t = "string" THEN merged[1]
       ELSE Template(merged)

\* str.replace(/\{\{([^}]+)\}\}/g, (_, path) => value != null ? String(value) : "")
\* with value what the path leads to from the keys of lookup
RECURSIVE Replace(_, _)
Replace(parts, lookup) ==
    IF parts = <<>> THEN <<>>
    ELSE LET part == Head(parts)
             value == WalkPath(Obj(lookup), part.path)
         IN (IF part.t # "ref" THEN <<part>>
             ELSE IF value.t = "undefined" THEN <<>>
             ELSE IF value.t = "template" THEN value.parts
             ELSE <<Str(StringOf(value))>>)
            \o Replace(Tail(parts), lookup)

\* resolveTemplate(str), and resolveTemplateWithObj(str) when lookup is tempCtx
resolveTemplate(str, lookup) == StringFrom(Replace(str.parts, lookup))

\* resolveInput(obj): references are replaced by what they point at, step
\* definitions are kept as definitions, plain objects are resolved in two passes
RECURSIVE resolveInput(_, _)
resolveInput(obj, ctx) ==
    CASE obj.t = "array" ->
           Arr([i \in DOMAIN obj.a |-> resolveInput(obj.a[i], ctx)])
      [] obj.t = "ref" ->
           LET value == resolveRef(ctx, obj.path)
           IN IF obj.invert THEN Bool(~Truthy(value)) ELSE value
      [] obj.t = "step" -> Step(obj.proc, obj.name, obj.input)
      [] obj.t = "template" -> resolveTemplate(obj, ctx)
      [] obj.t = "object" ->
           LET firstPass == [key \in DOMAIN obj.f |->
                               IF obj.f[key].t = "ref"
                               THEN resolveInput(obj.f[key], ctx)
                               ELSE obj.f[key]]
               tempCtx == firstPass @@ ctx
           IN Obj([key \in DOMAIN firstPass |->
                     LET value == firstPass[key]
                     IN IF value.t = "template"
                        THEN resolveTemplate(value, tempCtx)
                        ELSE IF value.t = "array"
                        THEN Arr([i \in DOMAIN value.a |->
                                    resolveInput(value.a[i], ctx)])
                        ELSE IF value.t \in {"object", "step", "error"}
                        THEN resolveInput(value, ctx)
                        ELSE value])
      [] OTHER -> obj


\* ------------------------------------------- aggregations: executeStep
\* An invocation of executeStep is a frame, named by its position in the
\* definition: <<>> is the aggregation itself, Child(path, i) the i-th step
\* of a chain, task of a parallel, iteration of a map, the try of a
\* tryCatch (1), the then (1) or the else (2) of a conditional.
Child(path, i) == Append(path, i)

\* what `undefined.steps`, `for (... of undefined)` or `undefined[0]` throw
TypeError == Error(Str("TypeError"), <<>>)

\* {}: the object without keys
EmptyObject == Obj([key \in {} |-> Undefined])

NewFrame(step, stepInput, status, now) ==
    [step |-> step, input |-> stepInput, status |-> status, idx |-> 0,
     acc |-> <<>>, result |-> Undefined, begun |-> now, ended |-> 0]

BindNothing(ctx, name, result) == ctx

\* if (name) { context[name] = result; }
BindName(ctx, name, result) ==
    IF name # "" THEN (name :> result) @@ ctx ELSE ctx

\* the end of executeStep: bind the name, return result
Finish(st, path, result) ==
    [st EXCEPT !.context = BindName(@, st.frames[path].step.name, result),
               !.frames[path].status = "returned",
               !.frames[path].result = result,
               !.frames[path].ended = st.clock]

\* executeStep rejects with error
Throw(st, path, error) ==
    [st EXCEPT !.frames[path].status = "threw",
               !.frames[path].result = error,
               !.frames[path].ended = st.clock]

\* proc[0] === "client" and proc[1] is one of the cases of the switch
IsOperator(p, op) == Len(p) >= 2 /\ p[1] = "client" /\ p[2] = op

\* calls.push({ path: [...path], input })
PushCall(callLog, path, stepInput, at) ==
    Append(callLog, [path |-> path, input |-> stepInput, at |-> at])

\* executeStep(step) up to its first await, the synchronous part of the
\* executeStep calls it makes included
RECURSIVE StartStep(_, _, _)
RECURSIVE StartTasks(_, _, _, _)
StartStep(st, path, step) ==
    IF step.t # "step"
    THEN Throw([st EXCEPT !.frames =
                   (path :> NewFrame(Step(<<>>, "", Undefined), Undefined,
                                     "awaiting", st.clock)) @@ @],
               path, TypeError)
    ELSE
    LET stepInput == resolveInput(step.input, st.context)
        st0 == [st EXCEPT !.frames =
                   (path :> NewFrame(step, stepInput, "awaiting", st.clock)) @@ @]
    IN CASE IsOperator(step.proc, "chain") ->
              LET steps == Field(stepInput, "steps")
              IN IF steps.t # "array" THEN Throw(st0, path, TypeError)
                 ELSE IF Len(steps.a) = 0 THEN Finish(st0, path, Undefined)
                 ELSE StartStep([st0 EXCEPT !.frames[path].idx = 1],
                                Child(path, 1), steps.a[1])
         [] IsOperator(step.proc, "conditional") ->
              LET condition == Field(stepInput, "condition")
                  then == Field(stepInput, "then")
                  else == Field(stepInput, "else")
              IN IF Truthy(condition) /\ Truthy(then)
                 THEN StartStep([st0 EXCEPT !.frames[path].idx = 1],
                                Child(path, 1), then)
                 ELSE IF ~Truthy(condition) /\ Truthy(else)
                 THEN StartStep([st0 EXCEPT !.frames[path].idx = 2],
                                Child(path, 2), else)
                 ELSE Finish(st0, path, Undefined)
         [] IsOperator(step.proc, "tryCatch") ->
              StartStep([st0 EXCEPT !.frames[path].idx = 1],
                        Child(path, 1), Field(stepInput, "try"))
         [] IsOperator(step.proc, "parallel") ->
              LET tasks == Field(stepInput, "tasks")
              IN IF tasks.t # "array" THEN Throw(st0, path, TypeError)
                 ELSE IF Len(tasks.a) = 0 THEN Finish(st0, path, Arr(<<>>))
                 ELSE StartTasks(st0, path, tasks.a, 1)
         [] IsOperator(step.proc, "map") ->
              LET items == Field(stepInput, "items")
              IN IF ~Truthy(items) THEN Finish(st0, path, Arr(<<>>))
                 ELSE IF items.t # "array" THEN Throw(st0, path, TypeError)
                 ELSE IF Len(items.a) = 0 THEN Finish(st0, path, Arr(<<>>))
                 ELSE StartStep(
                        [st0 EXCEPT !.frames[path].idx = 1,
                                    !.context = ("item" :> items.a[1]) @@ @],
                        Child(path, 1), Field(stepInput, "mapper"))
         [] IsOperator(step.proc, "identity") -> Finish(st0, path, stepInput)
         [] IsOperator(step.proc, "throw") ->
              Throw(st0, path, Error(Field(stepInput, "message"), <<>>))
         [] OTHER ->
              [st0 EXCEPT !.frames[path].status = "calling",
                          !.calls = PushCall(@, step.proc, stepInput, st.clock)]

\* parallelInput.tasks.map((t) => executeStep(t))
StartTasks(st, path, tasks, i) ==
    IF i > Len(tasks) THEN st
    ELSE StartTasks(StartStep(st, Child(path, i), tasks[i]), path, tasks, i + 1)


\* the promise of an executeStep call has been fulfilled / rejected
Fulfilled(frame) == frame.status = "returned"
Rejected(frame) == frame.status = "threw"

PropagatesNever(frame) == FALSE

\* `await executeStep(s)` throws what the awaited call rejected with
Propagates(frame) == Rejected(frame)

AwaitedStepBegun(frs, path) == TRUE

\* `await executeStep(s)`: the caller goes on once the awaited call settled
AwaitedStepSettled(frs, path) ==
    LET awaited == frs[Child(path, frs[path].idx)]
    IN Fulfilled(awaited) \/ Rejected(awaited)

\* the number of tasks of a parallel frame
NumTasks(frame) == Len(Field(frame.input, "tasks").a)

\* Promise.all settles: rejected as soon as one promise is rejected,
\* fulfilled when all are fulfilled
PromiseAllSettled(frs, path) ==
    \/ \E i \in 1..NumTasks(frs[path]) : Rejected(frs[Child(path, i)])
    \/ \A i \in 1..NumTasks(frs[path]) : Fulfilled(frs[Child(path, i)])

\* the task whose rejection Promise.all takes: the first to be rejected,
\* in array order among those rejected in the same synchronous run
FirstRejected(frs, path) ==
    CHOOSE i \in 1..NumTasks(frs[path]) :
       /\ Rejected(frs[Child(path, i)])
       /\ \A j \in 1..NumTasks(frs[path]) :
             Rejected(frs[Child(path, j)])
                => \/ frs[Child(path, i)].ended < frs[Child(path, j)].ended
                   \/ /\ frs[Child(path, i)].ended = frs[Child(path, j)].ended
                      /\ i <= j

\* the frame at path is suspended at an await that is over
CanResume(frs, path) ==
    /\ frs[path].status = "awaiting"
    /\ IF IsOperator(frs[path].step.proc, "parallel")
       THEN PromiseAllSettled(frs, path)
       ELSE AwaitedStepSettled(frs, path)

\* executeStep from the await it was suspended at up to its next await
ResumeStep(st, path) ==
    LET frame == st.frames[path]
        p == frame.step.proc
        awaited == st.frames[Child(path, frame.idx)]
    IN CASE IsOperator(p, "parallel") ->
              IF \E i \in 1..NumTasks(frame) : Rejected(st.frames[Child(path, i)])
              THEN Throw(st, path,
                         st.frames[Child(path, FirstRejected(st.frames, path))].result)
              ELSE Finish(st, path,
                          Arr([i \in 1..NumTasks(frame) |->
                                 st.frames[Child(path, i)].result]))
         [] IsOperator(p, "tryCatch") ->
              IF Rejected(awaited)
              THEN Finish(st, path, Field(frame.input, "catch"))
              ELSE Finish(st, path, awaited.result)
         [] IsOperator(p, "chain") ->
              LET steps == Field(frame.input, "steps").a
              IN IF Propagates(awaited) THEN Throw(st, path, awaited.result)
                 ELSE IF frame.idx < Len(steps)
                 THEN StartStep([st EXCEPT !.frames[path].idx = frame.idx + 1],
                                Child(path, frame.idx + 1), steps[frame.idx + 1])
                 ELSE Finish(st, path, awaited.result)
         [] IsOperator(p, "map") ->
              LET items == Field(frame.input, "items").a
                  acc == Append(frame.acc, awaited.result)
              IN IF Propagates(awaited) THEN Throw(st, path, awaited.result)
                 ELSE IF frame.idx < Len(items)
                 THEN StartStep(
                        [st EXCEPT !.frames[path].idx = frame.idx + 1,
                                   !.frames[path].acc = acc,
                                   !.context = ("item" :> items[frame.idx + 1]) @@ @],
                        Child(path, frame.idx + 1), Field(frame.input, "mapper"))
                 ELSE Finish([st EXCEPT !.frames[path].acc = acc], path, Arr(acc))
         [] OTHER ->
              IF Propagates(awaited) THEN Throw(st, path, awaited.result)
              ELSE Finish(st, path, awaited.result)


\* ------------------------------------------- aggregation definitions
\* aggregations/pnpm-workflow: pnpm install, then pnpm run build
pnpmInstallAndBuildAggregation ==
    Step(<<"client", "chain">>, "", Obj([steps |-> Arr(<<
      Step(<<"pnpm", "install">>, "install",
           Obj([cwd |-> Ref(<<"input", "cwd">>)])),
      Step(<<"client", "conditional">>, "", Obj([
           condition |-> NotRef(<<"install", "success">>),
           then |-> Step(<<"client", "throw">>, "", Obj([
                      message |-> Template(<<Str("pnpm install failed: "),
                          Ref(<<"install", "stderr">>)>>)]))])),
      Step(<<"pnpm", "run">>, "build",
           Obj([script |-> Str("build"), cwd |-> Ref(<<"input", "cwd">>)])),
      Step(<<"client", "conditional">>, "", Obj([
           condition |-> NotRef(<<"build", "success">>),
           then |-> Step(<<"client", "throw">>, "", Obj([
                      message |-> Template(<<Str("pnpm run build failed: "),
                          Ref(<<"build", "stderr">>)>>)]))])),
      Step(<<"client", "identity">>, "", Obj([
           success |-> Bool(TRUE),
           install |-> Obj([exitCode |-> Ref(<<"install", "exitCode">>),
                            duration |-> Ref(<<"install", "duration">>)]),
           build |-> Obj([exitCode |-> Ref(<<"build", "exitCode">>),
                          duration |-> Ref(<<"build", "duration">>)])]))
    >>)]))

\* tryCatch(try = fs.rm of a path under the package, catch = { removed: false })
TryRemove(pathTemplate, fields) ==
    Step(<<"client", "tryCatch">>, "", Obj([
         try |-> Step(<<"fs", "rm">>, "",
                      Obj(("path" :> pathTemplate) @@ fields)),
         catch |-> Obj([removed |-> Bool(FALSE)])]))

\* refresh-aggregation: refresh of one package
refreshSinglePackageAggregation ==
    Step(<<"client", "chain">>, "", Obj([steps |-> Arr(<<
      Step(<<"client", "conditional">>, "cleanup", Obj([
           condition |-> Ref(<<"input", "force">>),
           then |-> Step(<<"client", "chain">>, "", Obj([steps |-> Arr(<<
              TryRemove(Template(<<Ref(<<"input", "cwd">>), Str("/node_modules")>>),
                        [recursive |-> Bool(TRUE), force |-> Bool(TRUE)]),
              TryRemove(Template(<<Ref(<<"input", "cwd">>), Str("/dist")>>),
                        [recursive |-> Bool(TRUE), force |-> Bool(TRUE)]),
              TryRemove(Template(<<Ref(<<"input",
                  "cwd">>), Str("/pnpm-lock.yaml")>>), [force |-> Bool(TRUE)]),
              TryRemove(Template(<<Ref(<<"input",
                  "cwd">>), Str("/tsconfig.tsbuildinfo")>>), [force |-> Bool(TRUE)])
           >>)]))])),
      Step(<<"pnpm", "install">>, "install",
           Obj([cwd |-> Ref(<<"input", "cwd">>)])),
      Step(<<"client", "conditional">>, "", Obj([
           condition |-> NotRef(<<"install", "success">>),
           then |-> Step(<<"client", "throw">>, "",
                         Obj([message |-> Str("pnpm install failed")]))])),
      Step(<<"pnpm", "run">>, "build",
           Obj([script |-> Str("build"), cwd |-> Ref(<<"input", "cwd">>)])),
      Step(<<"client", "conditional">>, "", Obj([
           condition |-> NotRef(<<"build", "success">>),
           then |-> Step(<<"client", "throw">>, "",
                         Obj([message |-> Str("pnpm run build failed")]))])),
      Step(<<"client", "conditional">>, "git", Obj([
           condition |-> NotRef(<<"input", "skipGit">>),
           then |-> Step(<<"client", "tryCatch">>, "", Obj([
              try |-> Step(<<"client", "chain">>, "", Obj([steps |-> Arr(<<
                 Step(<<"git", "add">>, "",
                      Obj([all |-> Bool(TRUE), cwd |-> Ref(<<"input", "cwd">>)])),
                 Step(<<"git", "commit">>, "",
                      Obj([message |-> Template(<<Str("Refreshed package "),
                          Ref(<<"input", "packageName">>)>>),
                           cwd |-> Ref(<<"input", "cwd">>)])),
                 Step(<<"git", "push">>, "",
                      Obj([cwd |-> Ref(<<"input", "cwd">>)]))
              >>)])),
              catch |-> Obj([error |-> Str("Git operations failed")])]))])),
      Step(<<"client", "identity">>, "", Obj([
           success |-> Bool(TRUE),
           name |-> Ref(<<"input", "packageName">>),
           path |-> Ref(<<"input", "cwd">>),
           operations |-> Obj([cleanup |-> Ref(<<"cleanup">>),
                               install |-> Ref(<<"install", "success">>),
                               build |-> Ref(<<"build", "success">>),
                               git |-> Ref(<<"git">>)])]))
    >>)]))

\* aggregations/git-workflow: git add, commit, push
gitCommitAndPushAggregation ==
    Step(<<"client", "chain">>, "", Obj([steps |-> Arr(<<
      Step(<<"git", "add">>, "staged",
           Obj([all |-> Bool(TRUE), cwd |-> Ref(<<"input", "cwd">>)])),
      Step(<<"git", "commit">>, "commit",
           Obj([message |-> Ref(<<"input", "message">>),
                cwd |-> Ref(<<"input", "cwd">>)])),
      Step(<<"git", "push">>, "push", Obj([cwd |-> Ref(<<"input", "cwd">>)])),
      Step(<<"client", "identity">>, "", Obj([
           success |-> Bool(TRUE),
           staged |-> Ref(<<"staged">>),
           commit |-> Ref(<<"commit">>),
           pushed |-> Bool(TRUE)]))
    >>)]))

\* pull-aggregation: git pull of one package
pullSinglePackageAggregation ==
    Step(<<"client", "chain">>, "", Obj([steps |-> Arr(<<
      Step(<<"client", "conditional">>, "dryRunResult", Obj([
           condition |-> Ref(<<"input", "dryRun">>),
           then |-> Step(<<"client", "identity">>, "", Obj([
              success |-> Bool(TRUE),
              dryRun |-> Bool(TRUE),
              name |-> Ref(<<"input", "packageName">>),
              path |-> Ref(<<"input", "cwd">>),
              plannedOperations |-> Arr(<<Template(<<Str("git pull "),
                  Ref(<<"input", "remote">>)>>)>>)]))])),
      Step(<<"client", "conditional">>, "pullResult", Obj([
           condition |-> NotRef(<<"input", "dryRun">>),
           then |-> Step(<<"client", "tryCatch">>, "", Obj([
              try |-> Step(<<"git", "pull">>, "", Obj([
                         remote |-> Ref(<<"input", "remote">>),
                         rebase |-> Ref(<<"input", "rebase">>),
                         cwd |-> Ref(<<"input", "cwd">>)])),
              catch |-> Step(<<"client", "identity">>, "", Obj([
                           success |-> Bool(FALSE),
                           error |-> Str("Pull failed")]))]))])),
      Step(<<"client", "identity">>, "", Obj([
           success |-> Bool(TRUE),
           name |-> Ref(<<"input", "packageName">>),
           path |-> Ref(<<"input", "cwd">>),
           commits |-> Ref(<<"pullResult", "commits">>),
           fastForward |-> Ref(<<"pullResult", "fastForward">>)]))
    >>)]))


\* install-aggregation: clone what is missing, then install and build
libInstallAggregation ==
    Step(<<"client", "chain">>, "", Obj([steps |-> Arr(<<
      Step(<<"client", "identity">>, "config",
           Obj([rootPath |-> Ref(<<"input", "rootPath">>)])),
      Step(<<"client", "tryCatch">>, "manifest", Obj([
           try |-> Step(<<"fs", "read.json">>, "", Obj([
                      path |-> Template(<<Ref(<<"config",
                          "rootPath">>), Str("/ecosystem/ecosystem.manifest.json")>>)])),
           catch |-> Step(<<"client", "throw">>, "", Obj([
                        message |-> Str("Could not load ecosystem manifest.")]))])),
      Step(<<"client", "map">>, "cloneResults", Obj([
           items |-> Ref(<<"manifest", "data", "packages">>),
           mapper |-> Step(<<"lib", "install.cloneMissing">>, "", Obj([
                         name |-> Ref(<<"item", "key">>),
                         path |-> Template(<<Ref(<<"manifest",
                             "data", "root">>), Str("/"), Ref(<<"item", "value", "path">>)>>),
                         url |-> Ref(<<"item", "value", "repo">>),
                         branch |-> Ref(<<"item", "value", "branch">>),
                         dryRun |-> Ref(<<"input", "dryRun">>)]))])),
      Step(<<"client", "conditional">>, "", Obj([
           condition |-> Ref(<<"input", "dryRun">>),
           then |-> Step(<<"client", "identity">>, "", Obj([
                       success |-> Bool(TRUE),
                       dryRun |-> Bool(TRUE),
                       cloneResults |-> Ref(<<"cloneResults">>)]))])),
      Step(<<"lib", "scan">>, "scan",
           Obj([rootPath |-> Ref(<<"manifest", "data", "root">>)])),
      Step(<<"dag", "execute">>, "dagResult", Obj([
           packages |-> Ref(<<"scan", "packages">>),
           processor |-> Step(<<"lib", "install.single">>, "", Obj([
                            cwd |-> Ref(<<"node", "repoPath">>),
                            packageName |-> Ref(<<"node", "name">>)])),
           concurrency |-> Ref(<<"input", "concurrency">>),
           failFast |-> NotRef(<<"input", "continueOnError">>)])),
      Step(<<"client", "identity">>, "", Obj([
           success |-> Ref(<<"dagResult", "success">>),
           cloned |-> Ref(<<"cloneResults">>),
           results |-> Ref(<<"dagResult", "results">>)]))
    >>)]))

\* nested-aggregation.test: a nested chain refers to a step of the outer chain
crossBoundaryRef ==
    Step(<<"client", "chain">>, "", Obj([steps |-> Arr(<<
      Step(<<"test", "getValue">>, "firstStep", EmptyObject),
      Step(<<"client", "chain">>, "", Obj([steps |-> Arr(<<
         Step(<<"test", "useValue">>, "",
              Obj([value |-> Ref(<<"firstStep", "computedValue">>)]))
      >>)]))
    >>)]))

\* nested-aggregation.test: a throw three chains deep
deepError ==
    Step(<<"client", "chain">>, "", Obj([steps |-> Arr(<<
      Step(<<"client", "chain">>, "", Obj([steps |-> Arr(<<
         Step(<<"client", "chain">>, "", Obj([steps |-> Arr(<<
            Step(<<"client", "throw">>, "", Obj([message |-> Str("Deep error")]))
         >>)]))
      >>)]))
    >>)]))

\* nested-aggregation.test: a parallel with a failing task inside a tryCatch
parallelWithError ==
    Step(<<"client", "chain">>, "", Obj([steps |-> Arr(<<
      Step(<<"client", "tryCatch">>, "", Obj([
           try |-> Step(<<"client", "parallel">>, "", Obj([tasks |-> Arr(<<
                      Step(<<"test", "procedure">>, "", EmptyObject),
                      Step(<<"test", "fail">>, "", EmptyObject)
                   >>)])),
           catch |-> Obj([parallelFailed |-> Bool(TRUE)])]))
    >>)]))

\* aggregations/cleanup: one path of forceCleanupAggregation, a tryCatch named
\* name around "fs.exists, then fs.rm if it exists"
RemoveIfExists(name, file, fields) ==
    LET path == Template(<<Ref(<<"input", "cwd">>), Str("/" \o file)>>)
    IN Step(<<"client", "tryCatch">>, name, Obj([
         try |-> Step(<<"client", "chain">>, "", Obj([steps |-> Arr(<<
            Step(<<"fs", "exists">>, "check", Obj([path |-> path])),
            Step(<<"client", "conditional">>, "", Obj([
                 condition |-> Ref(<<"check", "exists">>),
                 then |-> Step(<<"fs", "rm">>, "",
                               Obj(("path" :> path) @@ fields))]))
         >>)])),
         catch |-> Obj([removed |-> Bool(FALSE),
                        error |-> Str("Failed to remove " \o file)])]))

forceCleanupAggregation ==
    Step(<<"client", "chain">>, "", Obj([steps |-> Arr(<<
      RemoveIfExists("nodeModules", "node_modules",
                     [recursive |-> Bool(TRUE), force |-> Bool(TRUE)]),
      RemoveIfExists("dist", "dist",
                     [recursive |-> Bool(TRUE), force |-> Bool(TRUE)]),
      RemoveIfExists("lock", "pnpm-lock.yaml", [force |-> Bool(TRUE)]),
      RemoveIfExists("tsbuildinfo", "tsconfig.tsbuildinfo", [force |-> Bool(TRUE)]),
      Step(<<"client", "identity">>, "", Obj([
           success |-> Bool(TRUE),
           cleaned |-> Obj([nodeModules |-> Ref(<<"nodeModules">>),
                            dist |-> Ref(<<"dist">>),
                            lock |-> Ref(<<"lock">>),
                            tsbuildinfo |-> Ref(<<"tsbuildinfo">>)])]))
    >>)]))

\* ------------------------------------------- the client and the inputs
\* an entry of the ecosystem manifest, as the map step of install reads it
ManifestEntry(key) ==
    Obj([key |-> Str(key),
         value |-> Obj([path |-> Str(key), repo |-> Str("github:" \o key),
                        branch |-> Str("main")])])

\* what a call of the procedure p can return; the test client returns the
\* registered output, {} when none is registered
Outputs(p) ==
    CASE p \in {<<"pnpm", "install">>, <<"pnpm", "run">>} ->
           {Obj([success |-> Bool(TRUE)]), Obj([success |-> Bool(FALSE)])}
      [] p = <<"fs", "exists">> ->
           {Obj([exists |-> Bool(TRUE)]), Obj([exists |-> Bool(FALSE)])}
      [] p = <<"fs", "read.json">> ->
           {Obj([data |-> Obj([root |-> Str("/git"),
                               packages |-> Arr(<<ManifestEntry("a"),
                                                  ManifestEntry("b")>>)])])}
      [] p = <<"dag", "execute">> ->
           {Obj([success |-> Bool(TRUE)]), Obj([success |-> Bool(FALSE)])}
      [] p = <<"test", "getValue">> -> {Obj([computedValue |-> Num(42)])}
      [] OTHER -> {EmptyObject}

\* if (response?.error) throw response.error
CallError(p) == Error(Str("call failed"), p)

RefreshInputs ==
    {Obj([cwd |-> Str("/git/pkg"), packageName |-> Str("pkg"),
          force |-> Bool(force), skipGit |-> Bool(skipGit),
          dryRun |-> Bool(dryRun)]) :
       force \in BOOLEAN, skipGit \in BOOLEAN, dryRun \in BOOLEAN}

DryRunInputs ==
    {Obj([cwd |-> Str("/git/pkg"), packageName |-> Str("pkg"),
          rootPath |-> Str("/git"), remote |-> Str("origin"),
          dryRun |-> Bool(dryRun)]) : dryRun \in BOOLEAN}

PlainInputs == {Obj([cwd |-> Str("/git/pkg"), message |-> Str("Test commit")])}

Aggregation(name, definition, input) ==
    [name |-> name, definition |-> definition, input |-> input]

\* the runs considered: an aggregation of the package with an input for it
Catalogue ==
    {Aggregation("refreshSinglePackageAggregation",
                 refreshSinglePackageAggregation, in) : in \in RefreshInputs}
    \cup {Aggregation("libInstallAggregation", libInstallAggregation, in) :
            in \in DryRunInputs}
    \cup {Aggregation("pullSinglePackageAggregation",
                      pullSinglePackageAggregation, in) : in \in DryRunInputs}
    \cup {Aggregation("pnpmInstallAndBuildAggregation",
                      pnpmInstallAndBuildAggregation, in) : in \in PlainInputs}
    \cup {Aggregation("gitCommitAndPushAggregation",
                      gitCommitAndPushAggregation, in) : in \in PlainInputs}
    \cup {Aggregation("forceCleanupAggregation", forceCleanupAggregation, in) :
            in \in PlainInputs}
    \cup {Aggregation("crossBoundaryRef", crossBoundaryRef, in) : in \in PlainInputs}
    \cup {Aggregation("deepError", deepError, in) : in \in PlainInputs}
    \cup {Aggregation("parallelWithError", parallelWithError, in) : in \in PlainInputs}


\* ------------------------------------------- executeAggregation
NoFrames == [path \in {} |-> Undefined]

\* the interpreter's state at the next step of the run
AggState ==
    [context |-> context, frames |-> frames, calls |-> calls, clock |-> clock + 1]

SetAggState(st) ==
    /\ context' = st.context
    /\ frames' = st.frames
    /\ calls' = st.calls
    /\ clock' = st.clock

\* executeAggregation(aggregation, input, client): return executeStep(aggregation)
ExecuteAggregation ==
    /\ aggregation # <<>>
    /\ clock = 0
    /\ SetAggState(StartStep(AggState, <<>>, aggregation.definition))
    /\ UNCHANGED <<aggregation, dagVars, refreshVars, otherVars>>

\* the promise of client.call(proc, stepInput) settles and executeStep goes
\* on to its end
ClientCallSettles(path) ==
    /\ frames[path].status = "calling"
    /\ \/ \E output \in Outputs(frames[path].step.proc) :
             SetAggState(Finish(AggState, path, output))
       \/ SetAggState(Throw(AggState, path, CallError(frames[path].step.proc)))
    /\ UNCHANGED <<aggregation, dagVars, refreshVars, otherVars>>

\* an executeStep suspended at `await executeStep(...)` or at
\* `await Promise.all(...)` goes on
StepResumes(path) ==
    /\ CanResume(frames, path)
    /\ SetAggState(ResumeStep(AggState, path))
    /\ UNCHANGED <<aggregation, dagVars, refreshVars, otherVars>>

InitAggregation ==
    /\ aggregation \in Catalogue
    /\ context = [input |-> aggregation.input]
    /\ frames = NoFrames
    /\ calls = <<>>
    /\ clock = 0
    /\ dependencies = [n \in Nodes |-> <<>>]
    /\ concurrency = 1
    /\ failFast = TRUE
    /\ wrapped = TRUE
    /\ callbacks = NoCallbacks
    /\ InitExecutorState
    /\ refreshed = <<>>
    /\ refreshOutput = <<>>
    /\ NoOther

NextAggregation ==
    \/ ExecuteAggregation
    \/ \E path \in DOMAIN frames : ClientCallSettles(path)
    \/ \E path \in DOMAIN frames : StepResumes(path)

SpecAggregation == InitAggregation /\ [][NextAggregation]_vars

\* ------------------------------------------- procedures/lib/refresh.ts
\* the call of refreshSinglePackage that fails first, if any
RefreshFailures == {"none", "cleanup", "install", "build", "git"}

\* refreshSinglePackage(pkgPath, packageName, ctx, options), by the phase
\* whose call fails first; a RefreshResult has error and failedPhase only
\* when a phase failed
refreshSinglePackage(name, options, failure) ==
    IF options.dryRun THEN [name |-> name, success |-> TRUE]
    ELSE IF options.force /\ failure = "cleanup"
    THEN [name |-> name, success |-> FALSE,
          error |-> "Failed to remove node_modules", failedPhase |-> "cleanup"]
    ELSE IF failure = "install"
    THEN [name |-> name, success |-> FALSE,
          error |-> "pnpm install failed", failedPhase |-> "install"]
    ELSE IF failure = "build"
    THEN [name |-> name, success |-> FALSE,
          error |-> "pnpm run build failed", failedPhase |-> "build"]
    ELSE IF ~options.skipGit /\ failure = "git"
    THEN [name |-> name, success |-> FALSE,
          error |-> "Git operations failed", failedPhase |-> "git"]
    ELSE [name |-> name, success |-> TRUE]

\* refreshOpts of the call considered: a forced refresh with git
RefreshOptions == [force |-> TRUE, skipGit |-> FALSE, dryRun |-> FALSE]

\* executeDAG(dag, processor, { concurrency: 4, ... })
RefreshConcurrency == 4

\* the scanned packages: each depends on at most one package scanned before
\* it, and no level of the plan fills the pool of RefreshConcurrency
RefreshGraphs ==
    {d \in PlainDependencies :
        /\ \A n \in Nodes : Len(d[n]) <= 1 /\ \A m \in Range(d[n]) : m < n
        /\ \A i \in DOMAIN buildLeveledDAG(d).levels :
              Len(buildLeveledDAG(d).levels[i]) < RefreshConcurrency}

\* the processor of libRefresh runs for a package: refreshSinglePackage
\* returns, and the function given to createProcessor throws
\* new Error(result.error) unless result.success
RefreshProcessorSettles(node) ==
    /\ proc[node].stage = "running"
    /\ \E failure \in RefreshFailures :
          LET result == refreshSinglePackage(node, RefreshOptions, failure)
          IN /\ refreshed' = [refreshed EXCEPT ![node] = result]
             /\ proc' = [proc EXCEPT ![node] =
                           [stage |-> "settled", outcome |-> "fulfilled",
                            result |-> createProcessor(
                               IF result.success THEN "returns" ELSE "throws",
                               node)]]
    /\ UNCHANGED <<aggVars, otherVars, refreshOutput, dependencies, dag, execVars, pc,
                   levelIdx, shouldStop, results, failedNodes, success, itemIdx,
                   executing, levelResults, awaiting, started>>

\* const result = { name, path, success: nodeResult.success, duration };
\* if (nodeResult.error?.message !== undefined) result.error = ...message
RefreshResultOf(name, nodeResult, single) ==
    IF nodeResult.success THEN [name |-> name, success |-> TRUE]
    ELSE [name |-> name, success |-> FALSE, error |-> single.error]

\* libRefresh after executeDAG returned: the RefreshResults are made from
\* dagResult.results and returned
LibRefreshReturns ==
    /\ pc = "returned"
    /\ DOMAIN refreshOutput = {}
    /\ refreshOutput' =
          [success |-> success,
           results |-> [n \in DOMAIN results |->
                          RefreshResultOf(n, results[n], refreshed[n])]]
    /\ UNCHANGED <<aggVars, dagVars, otherVars, refreshed>>

InitRefresh ==
    /\ dependencies \in RefreshGraphs
    /\ concurrency = RefreshConcurrency
    /\ failFast \in BOOLEAN
    /\ wrapped = TRUE
    /\ callbacks = NoCallbacks
    /\ InitExecutorState
    /\ aggregation = <<>>
    /\ context = <<>>
    /\ frames = <<>>
    /\ calls = <<>>
    /\ clock = 0
    /\ refreshed = [n \in Nodes |-> <<>>]
    /\ refreshOutput = <<>>
    /\ NoOther

NextRefresh ==
    \/ BuildLeveledDAG
    \/ ExecuteDAG
    \/ StartLevel
    \/ Return
    \/ \E node \in Nodes : RefreshProcessorSettles(node)
    \/ \E node \in Nodes : ThenCallback(node)
    \/ CollectLevel
    \/ LibRefreshReturns

SpecRefresh == InitRefresh /\ [][NextRefresh]_vars


\* ------------------------------------------- resolveInput on its own
\* the references tried: into the input, into a step result, and nowhere
ResolvePaths ==
    {<<"input", "cwd">>, <<"input", "pkg", "name">>, <<"input", "message">>,
     <<"input", "pkg">>, <<"input", "nonexistent", "path">>,
     <<"input", "cwd", "b", "c">>, <<"build", "success">>, <<"missing">>}

\* an input with no step and no template in it: literals and references
ResolveLeaves ==
    {Num(1), Str("x"), Bool(TRUE), Undefined}
    \cup {Ref(path) : path \in ResolvePaths}
    \cup {NotRef(path) : path \in ResolvePaths}

ResolveObjects ==
    ResolveLeaves
    \cup {Obj([value |-> leaf]) : leaf \in ResolveLeaves}
    \cup {Obj([value |-> leaf, other |-> Str("valid")]) : leaf \in ResolveLeaves}
    \cup {Obj([outer |-> Obj([value |-> leaf])]) : leaf \in ResolveLeaves}
    \cup {Arr(<<leaf, Num(2)>>) : leaf \in ResolveLeaves}
    \cup {Obj([list |-> Arr(<<leaf>>)]) : leaf \in ResolveLeaves}

\* the contexts tried: the input of the caller and the result of a step named
\* build; the message the caller passes is any string
ResolveMessages ==
    {Str("Test commit"),
     Template(<<Str("release "), Ref(<<"input", "cwd">>)>>)}

ResolveContexts ==
    {[input |-> Obj([cwd |-> Str("/git/pkg"), message |-> message,
                     pkg |-> Obj([name |-> Str("pkg"), note |-> message])]),
      build |-> Obj([success |-> ok])] :
        message \in ResolveMessages, ok \in {Bool(TRUE), Bool(FALSE)}}

\* const stepInput = resolveInput(step.input)
ResolveInput ==
    /\ resolveArg # <<>>
    /\ resolveResult = <<>>
    /\ resolveResult' = resolveInput(resolveArg.obj, resolveArg.ctx)
    /\ UNCHANGED <<resolveArg, exceptResolve>>

InitResolve ==
    /\ \E o \in ResolveObjects, c \in ResolveContexts :
          resolveArg = [obj |-> o, ctx |-> c]
    /\ resolveResult = <<>>
    /\ NoDagRun
    /\ NoRun
    /\ NoSingle
    /\ NoInstall
    /\ NoFs
    /\ NoNew
    /\ NoTraverse
    /\ NoCommand
    /\ NoRegistry
    /\ NoFilter
    /\ NoRename
    /\ NoCatch

NextResolve == ResolveInput

SpecResolve == InitResolve /\ [][NextResolve]_vars


\* ------------------------------- procedures/lib/refresh.ts, call by call
\* refreshSinglePackage as the sequence of client calls it awaits.  A
\* statement is the call the function is suspended at: exists/rm of the i-th
\* cleanup path, install, build, status, add, commit, push.
CleanupPaths == <<"node_modules", "dist", "pnpm-lock.yaml", "tsconfig.tsbuildinfo">>

Stmt(op, i) == [op |-> op, i |-> i]

\* join(pkgPath, name)
JoinPath(pkgPath, name) == pkgPath \o "/" \o name

\* the ctx.client.call(path, input) of a statement
SingleCall(stmt, pkgPath, packageName) ==
    CASE stmt.op = "exists" ->
           [proc |-> <<"fs", "exists">>,
            input |-> Obj([path |-> Str(JoinPath(pkgPath, CleanupPaths[stmt.i]))])]
      [] stmt.op = "rm" ->
           [proc |-> <<"fs", "rm">>,
            input |-> Obj(("path" :> Str(JoinPath(pkgPath, CleanupPaths[stmt.i])))
                          @@ (IF stmt.i <= 2 THEN [recursive |-> Bool(TRUE)]
                              ELSE <<>>)
                          @@ [force |-> Bool(TRUE)])]
      [] stmt.op = "install" ->
           [proc |-> <<"pnpm", "install">>, input |-> Obj([cwd |-> Str(pkgPath)])]
      [] stmt.op = "build" ->
           [proc |-> <<"pnpm", "run">>,
            input |-> Obj([script |-> Str("build"), cwd |-> Str(pkgPath)])]
      [] stmt.op = "status" ->
           [proc |-> <<"git", "status">>, input |-> Obj([cwd |-> Str(pkgPath)])]
      [] stmt.op = "add" ->
           [proc |-> <<"git", "add">>,
            input |-> Obj([all |-> Bool(TRUE), cwd |-> Str(pkgPath)])]
      [] stmt.op = "commit" ->
           [proc |-> <<"git", "commit">>,
            input |-> Obj([message |-> Str("Refreshed package " \o packageName),
                           cwd |-> Str(pkgPath)])]
      [] stmt.op = "push" ->
           [proc |-> <<"git", "push">>, input |-> Obj([cwd |-> Str(pkgPath)])]

\* the RefreshResult returned; failedPhase is "" when the result has none
SingleResult(ok, phase) == [success |-> ok, failedPhase |-> phase]

Returns(ok, phase) == [stmt |-> Stmt("return", 0), result |-> SingleResult(ok, phase)]
Goto(stmt) == [stmt |-> stmt, result |-> <<>>]

\* where the function goes once the cleanup path i is dealt with
AfterPath(i, options) ==
    IF i < Len(CleanupPaths) THEN Goto(Stmt("exists", i + 1))
    ELSE IF ~options.dryRun THEN Goto(Stmt("install", 0))
    ELSE IF ~options.skipGit THEN Goto(Stmt("status", 0))
    ELSE Returns(TRUE, "")

\* where the function goes when it is called
AtStart(options) ==
    IF options.force THEN Goto(Stmt("exists", 1))
    ELSE AfterPath(Len(CleanupPaths), options)

SucceededAlways(value) == TRUE

\* installResult.success, buildResult.success
Succeeded(value) == Truthy(Field(value, "success"))

\* where the function goes when the call of stmt returned value
AfterReturn(stmt, value, options) ==
    CASE stmt.op = "exists" ->
           IF Truthy(Field(value, "exists")) /\ ~options.dryRun
           THEN Goto(Stmt("rm", stmt.i))
           ELSE AfterPath(stmt.i, options)
      [] stmt.op = "rm" -> AfterPath(stmt.i, options)
      [] stmt.op = "install" ->
           IF ~Succeeded(value) THEN Returns(FALSE, "install")
           ELSE Goto(Stmt("build", 0))
      [] stmt.op = "build" ->
           IF ~Succeeded(value) THEN Returns(FALSE, "build")
           ELSE IF ~options.skipGit THEN Goto(Stmt("add", 0))
           ELSE Returns(TRUE, "")
      [] stmt.op = "status" -> Returns(TRUE, "")
      [] stmt.op = "add" -> Goto(Stmt("commit", 0))
      [] stmt.op = "commit" -> Goto(Stmt("push", 0))
      [] stmt.op = "push" -> Returns(TRUE, "")

\* where the function goes when the call of stmt threw: into the catch
\* around the call, or into the catch around the whole execution
AfterThrow(stmt, options) ==
    CASE stmt.op = "exists" -> AfterPath(stmt.i, options)
      [] stmt.op = "rm" -> Returns(FALSE, "cleanup")
      [] stmt.op \in {"install", "build"} -> Returns(FALSE, "")
      [] stmt.op = "status" -> Returns(TRUE, "")
      [] stmt.op \in {"add", "commit", "push"} -> Returns(FALSE, "git")

SinglePkgPath == "/git/pkg"
SinglePackageName == "pkg"

\* the function goes to next: it issues the call of a statement, or returns
SingleGoes(run, next) ==
    LET now == run.clock + 1
        call == SingleCall(next.stmt, SinglePkgPath, SinglePackageName)
    IN IF next.stmt.op = "return"
       THEN [run EXCEPT !.stmt = next.stmt, !.result = next.result, !.clock = now]
       ELSE [run EXCEPT !.stmt = next.stmt, !.clock = now,
                        !.log = Append(@, [proc |-> call.proc, input |-> call.input,
                                           begun |-> now, ended |-> 0,
                                           failed |-> FALSE])]

\* the call in flight settles at the next tick
SingleSettled(run, failed) ==
    [run EXCEPT !.log[Len(run.log)].ended = run.clock + 1,
                !.log[Len(run.log)].failed = failed]

\* refreshSinglePackage(pkgPath, packageName, ctx, options) is called and runs
\* up to its first await
RefreshSingleCalled ==
    /\ refreshing # <<>>
    /\ refreshing.stmt.op = "start"
    /\ refreshing' = SingleGoes(refreshing, AtStart(refreshing.options))
    /\ UNCHANGED exceptSingle

\* the call awaited returns or throws, and the function runs up to its next await
RefreshSingleCallSettles ==
    /\ refreshing # <<>>
    /\ refreshing.stmt.op \notin {"start", "return"}
    /\ \/ \E value \in Outputs(refreshing.log[Len(refreshing.log)].proc) :
             refreshing' = SingleGoes(
                 SingleSettled(refreshing, Field(value, "success") = Bool(FALSE)),
                 AfterReturn(refreshing.stmt, value, refreshing.options))
       \/ refreshing' = SingleGoes(SingleSettled(refreshing, TRUE),
                               AfterThrow(refreshing.stmt, refreshing.options))
    /\ UNCHANGED exceptSingle

\* refresh.single either way: the aggregation or the function
InitRefreshSingle ==
    /\ \/ /\ aggregation \in {a \in Catalogue :
                                a.name \in {"refreshSinglePackageAggregation",
                                            "forceCleanupAggregation"}}
          /\ context = [input |-> aggregation.input]
          /\ frames = NoFrames
          /\ refreshing = <<>>
       \/ /\ aggregation = <<>>
          /\ context = <<>>
          /\ frames = <<>>
          /\ \E force \in BOOLEAN, skipGit \in BOOLEAN, dryRun \in BOOLEAN :
                refreshing = [options |-> [force |-> force, skipGit |-> skipGit,
                                       dryRun |-> dryRun],
                          stmt |-> Stmt("start", 0), log |-> <<>>,
                          result |-> <<>>, clock |-> 0]
    /\ calls = <<>>
    /\ clock = 0
    /\ refreshed = <<>>
    /\ refreshOutput = <<>>
    /\ NoDagRun
    /\ NoResolve
    /\ NoInstall
    /\ NoFs
    /\ NoNew
    /\ NoTraverse
    /\ NoCommand
    /\ NoRegistry
    /\ NoFilter
    /\ NoRename
    /\ NoCatch

NextRefreshSingle ==
    \/ NextAggregation
    \/ RefreshSingleCalled
    \/ RefreshSingleCallSettles

SpecRefreshSingle == InitRefreshSingle /\ [][NextRefreshSingle]_vars


\* ------------------------------------------- procedures/lib/install.js
\* libInstall over a tree: the manifest lists the packages Nodes, the
\* directory of a package exists when it is in disk, and a git clone that
\* succeeds makes the directory.  The scan of phase 2 finds the packages of
\* disk and their dependencies.
dirExistsNever(present, pkgName) == FALSE

\* dirExists(pkgPath, ctx): fs.exists of the package directory
dirExists(present, pkgName) == pkgName \in present

\* the graphs of the packages: a star, a chain, or no dependency at all
InstallGraphs ==
    {d \in RefreshGraphs :
        \/ \A n \in Nodes : d[n] = <<>>
        \/ \A n \in Nodes \ {1} : d[n] = <<1>>
        \/ \A n \in Nodes \ {1} : d[n] = <<n - 1>>}

InstallInputs == [dryRun : BOOLEAN, continueOnError : BOOLEAN]

\* the locals of libInstall at its start; before is what the call before
\* this one returned
InstallLocals(input, run, healthy, before) ==
    [input |-> input, run |-> run, before |-> before, phase |-> "cloning", idx |-> 1,
     cloned |-> <<>>, skipped |-> <<>>, errors |-> <<>>, clones |-> 0,
     healthy |-> healthy, output |-> <<>>]

\* the LibInstallOutput
InstallOutput(ok, locals) ==
    [success |-> ok, cloned |-> locals.cloned, skipped |-> locals.skipped,
     errors |-> locals.errors]

\* libInstall is called: on a tree, and again on the tree a successful call
\* left; it loads the manifest, which fails when the ecosystem package is
\* not there
LibInstallCalled ==
    /\ \/ /\ installRun.phase = "idle"
          /\ \/ installRun' = InstallLocals(installRun.input, 1, installRun.healthy, <<>>)
             \/ LET locals == InstallLocals(installRun.input, 1, installRun.healthy, <<>>)
                IN installRun' = [locals EXCEPT !.phase = "returned",
                                                !.output = InstallOutput(FALSE, locals)]
       \/ /\ installRun.phase = "returned"
          /\ installRun.run = 1
          /\ installRun.output.success
          /\ installRun' = InstallLocals(installRun.input, 2, installRun.healthy,
                                           installRun.output)
    /\ dag' = NoDag
    /\ pc' = "init"
    /\ levelIdx' = 0
    /\ shouldStop' = FALSE
    /\ results' = <<>>
    /\ failedNodes' = <<>>
    /\ success' = FALSE
    /\ itemIdx' = 0
    /\ executing' = {}
    /\ levelResults' = <<>>
    /\ awaiting' = NoAwait
    /\ proc' = [n \in Nodes |-> IdleProc]
    /\ started' = [n \in Nodes |-> 0]
    /\ UNCHANGED <<disk, dependencies, execVars, exceptInstall>>

\* Phase 1, one package of the manifest: skipped when its directory exists,
\* listed as cloned in a dry run, otherwise cloned; a clone that throws adds
\* an error
ClonesMissing ==
    /\ installRun.phase = "cloning"
    /\ installRun.idx <= NumNodes
    /\ LET pkgName == installRun.idx
           next == [installRun EXCEPT !.idx = @ + 1]
       IN IF dirExists(disk, pkgName)
          THEN /\ installRun' = [next EXCEPT !.skipped = Append(@, pkgName)]
               /\ disk' = disk
          ELSE IF installRun.input.dryRun
          THEN /\ installRun' = [next EXCEPT !.cloned = Append(@, pkgName)]
               /\ disk' = disk
          ELSE \/ /\ installRun' = [next EXCEPT !.cloned = Append(@, pkgName),
                                                !.clones = @ + 1]
                  /\ disk' = disk \cup {pkgName}
               \/ /\ installRun' = [next EXCEPT !.errors = Append(@, pkgName),
                                                !.clones = @ + 1]
                  /\ disk' = disk
    /\ UNCHANGED <<dagVars, exceptInstall>>

\* after Phase 1: a dry run returns; otherwise the packages are scanned and
\* run through executeDAG.  When a clone failed, errors is not empty and
\* success is false whatever the run over the packages that are there gives.
ClonePhaseEnds ==
    /\ installRun.phase = "cloning"
    /\ installRun.idx > NumNodes
    /\ installRun' =
          IF installRun.input.dryRun
          THEN [installRun EXCEPT !.phase = "returned",
                                  !.output = InstallOutput(TRUE, installRun)]
          ELSE IF installRun.errors # <<>>
          THEN [installRun EXCEPT !.phase = "returned",
                                  !.output = InstallOutput(FALSE, installRun)]
          ELSE [installRun EXCEPT !.phase = "dag"]
    /\ UNCHANGED <<disk, dagVars, exceptInstall>>

\* the processor of libInstall runs for a package: pnpm install and pnpm run
\* build succeed or not, the same way each time on the same package
InstallProcessorSettles(node) ==
    /\ proc[node].stage = "running"
    /\ \E ok \in BOOLEAN :
          /\ installRun.healthy[node] \in {"unknown", IF ok THEN "yes" ELSE "no"}
          /\ installRun' = [installRun EXCEPT !.healthy[node] =
                                                 IF ok THEN "yes" ELSE "no"]
          /\ proc' = [proc EXCEPT ![node] =
                        [stage |-> "settled", outcome |-> "fulfilled",
                         result |-> createProcessor(
                            IF ok THEN "returns" ELSE "throws", node)]]
    /\ UNCHANGED <<disk, exceptInstall, dependencies, dag, execVars, pc,
                   levelIdx, shouldStop, results, failedNodes, success, itemIdx,
                   executing, levelResults, awaiting, started>>

\* return { success: dagResult.success && errors.length === 0, ... }
LibInstallReturns ==
    /\ installRun.phase = "dag"
    /\ pc = "returned"
    /\ installRun' = [installRun EXCEPT
          !.phase = "returned",
          !.output = InstallOutput(success /\ installRun.errors = <<>>, installRun)]
    /\ UNCHANGED <<disk, dagVars, exceptInstall>>

InitInstall ==
    /\ dependencies \in InstallGraphs
    /\ concurrency = RefreshConcurrency
    /\ wrapped = TRUE
    /\ callbacks = NoCallbacks
    /\ \E input \in InstallInputs :
          /\ failFast = ~input.continueOnError
          /\ installRun = [input |-> input, run |-> 0, phase |-> "idle",
                           healthy |-> [n \in Nodes |-> "unknown"]]
    /\ disk \in {1..k : k \in 0..NumNodes}
    /\ InitExecutorState
    /\ NoRun
    /\ NoResolve
    /\ NoSingle
    /\ NoFs
    /\ NoNew
    /\ NoTraverse
    /\ NoCommand
    /\ NoRegistry
    /\ NoFilter
    /\ NoRename
    /\ NoCatch

NextInstall ==
    \/ LibInstallCalled
    \/ ClonesMissing
    \/ ClonePhaseEnds
    \/ installRun.phase = "dag" /\ BuildLeveledDAG
    \/ ExecuteDAG
    \/ StartLevel
    \/ Return
    \/ \E node \in Nodes : InstallProcessorSettles(node)
    \/ \E node \in Nodes : ThenCallback(node)
    \/ CollectLevel
    \/ LibInstallReturns

SpecInstall == InitInstall /\ [][NextInstall]_vars


\* ------------------------------------------- aggregations/cleanup: ensureDir
DirectoryMissingAlways == Bool(TRUE)

\* condition: { $ref: "check.exists", invert: true }
DirectoryMissing == NotRef(<<"check", "exists">>)

\* check exists, mkdir if not, return { success, path, created }
ensureDirAggregation ==
    Step(<<"client", "chain">>, "", Obj([steps |-> Arr(<<
      Step(<<"fs", "exists">>, "check", Obj([path |-> Ref(<<"input", "path">>)])),
      Step(<<"client", "conditional">>, "", Obj([
           condition |-> DirectoryMissing,
           then |-> Step(<<"fs", "mkdir">>, "",
                         Obj([path |-> Ref(<<"input", "path">>),
                              recursive |-> Bool(TRUE)]))])),
      Step(<<"client", "identity">>, "", Obj([
           success |-> Bool(TRUE),
           path |-> Ref(<<"input", "path">>),
           created |-> NotRef(<<"check", "exists">>)]))
    >>)]))

\* the paths tried, and the directory each is in
EnsurePaths == {"/new", "/new/dir", "/existing"}

Parent(path) == IF path = "/new/dir" THEN "/new" ELSE "/"

\* the trees tried: a directory is in a directory that exists
EnsureTrees ==
    {tree \in SUBSET EnsurePaths :
        \A path \in tree : Parent(path) \in tree \cup {"/"}}

\* mkdir(path, { recursive: true }): the directory and those above it
Mkdir(tree, path) == tree \cup ({path, Parent(path)} \ {"/"})

\* the promise of an fs call settles: fs.exists tells whether the path
\* exists, fs.mkdir makes the directory; either may throw and change nothing
FsCallSettles(path) ==
    /\ ensureRun # <<>>
    /\ frames[path].status = "calling"
    /\ LET p == frames[path].step.proc
           target == Field(frames[path].input, "path").s
       IN \/ /\ p = <<"fs", "exists">>
             /\ SetAggState(Finish(AggState, path,
                                   Obj([exists |-> Bool(target \in folders)])))
             /\ folders' = folders
          \/ /\ p = <<"fs", "mkdir">>
             /\ SetAggState(Finish(AggState, path, Obj([created |-> Bool(TRUE)])))
             /\ folders' = Mkdir(folders, target)
          \/ /\ SetAggState(Throw(AggState, path, CallError(p)))
             /\ folders' = folders
    /\ UNCHANGED <<aggregation, ensureRun, exceptFs>>

\* the aggregation has returned and is executed once more, with the same input
ExecutedAgain ==
    /\ ensureRun # <<>>
    /\ ensureRun.n = 1
    /\ clock > 0
    /\ Fulfilled(frames[<<>>])
    /\ ensureRun' = [n |-> 2, before |-> folders, first |-> frames[<<>>].result]
    /\ context' = [input |-> aggregation.input]
    /\ frames' = NoFrames
    /\ calls' = <<>>
    /\ clock' = 0
    /\ UNCHANGED <<aggregation, folders, exceptFs>>

InitEnsureDir ==
    /\ \E path \in EnsurePaths :
          aggregation = Aggregation("ensureDirAggregation", ensureDirAggregation,
                                    Obj([path |-> Str(path)]))
    /\ context = [input |-> aggregation.input]
    /\ frames = NoFrames
    /\ calls = <<>>
    /\ clock = 0
    /\ folders \in EnsureTrees
    /\ ensureRun = [n |-> 1, before |-> folders, first |-> Undefined]
    /\ refreshed = <<>>
    /\ refreshOutput = <<>>
    /\ NoDagRun
    /\ NoResolve
    /\ NoSingle
    /\ NoInstall
    /\ NoNew
    /\ NoTraverse
    /\ NoCommand
    /\ NoRegistry
    /\ NoFilter
    /\ NoRename
    /\ NoCatch

NextEnsureDir ==
    \/ ExecuteAggregation
    \/ \E path \in DOMAIN frames : FsCallSettles(path)
    \/ \E path \in DOMAIN frames : StepResumes(path)
    \/ ExecutedAgain

SpecEnsureDir == InitEnsureDir /\ [][NextEnsureDir]_vars


\* ------------------------------------------- procedures/lib/new
\* libNewAggregation: lib.new as an aggregation
libNewAggregation ==
    Step(<<"client", "chain">>, "", Obj([
      cwd |-> Ref(<<"input", "rootPath">>),
      steps |-> Arr(<<
        Step(<<"client", "identity">>, "paths", Obj([
             rootPath |-> Ref(<<"input", "rootPath">>),
             name |-> Ref(<<"input", "name">>),
             packagePath |-> Template(<<Ref(<<"rootPath">>), Str("/"),
                                        Ref(<<"name">>)>>),
             packageName |-> Template(<<Str("@mark1russell7/"), Ref(<<"name">>)>>)])),
        Step(<<"client", "tryCatch">>, "manifest", Obj([
             try |-> Step(<<"fs", "read.json">>, "", Obj([
                        path |-> Template(<<Ref(<<"paths", "rootPath">>),
                                   Str("/ecosystem/ecosystem.manifest.json")>>)])),
             catch |-> Obj([projectTemplate |-> Obj([
                        files |-> Arr(<<Str("package.json"), Str("tsconfig.json"),
                                        Str("dependencies.json"), Str(".gitignore")>>),
                        dirs |-> Arr(<<Str("src"), Str("dist")>>)])])])),
        Step(<<"fs", "exists">>, "exists",
             Obj([path |-> Ref(<<"paths", "packagePath">>)])),
        Step(<<"client", "conditional">>, "", Obj([
             condition |-> Ref(<<"exists", "exists">>),
             then |-> Step(<<"client", "throw">>, "",
                           Obj([message |-> Str("Package already exists")]))])),
        Step(<<"fs", "mkdir">>, "mkdir",
             Obj([path |-> Ref(<<"paths", "packagePath">>),
                  recursive |-> Bool(TRUE)])),
        Step(<<"client", "parallel">>, "", Obj([tasks |-> Arr(<<
             Step(<<"fs", "mkdir">>, "", Obj([
                  path |-> Template(<<Ref(<<"paths", "packagePath">>), Str("/src")>>),
                  recursive |-> Bool(TRUE)]))>>)])),
        Step(<<"fs", "write">>, "", Obj([
             path |-> Template(<<Ref(<<"paths", "packagePath">>),
                                 Str("/src/index.ts")>>),
             content |-> Str("// Entry point")])),
        Step(<<"shell", "exec">>, "", Obj([
             command |-> Template(<<Str("npx cue-config init --preset "),
                                    Ref(<<"input", "preset">>), Str(" --force")>>),
             cwd |-> Ref(<<"paths", "packagePath">>)])),
        Step(<<"shell", "exec">>, "", Obj([
             command |-> Str("npx cue-config generate"),
             cwd |-> Ref(<<"paths", "packagePath">>)])),
        Step(<<"client", "conditional">>, "", Obj([
             condition |-> NotRef(<<"input", "skipGit">>),
             then |-> Step(<<"client", "chain">>, "", Obj([
                cwd |-> Ref(<<"paths", "packagePath">>),
                steps |-> Arr(<<
                   Step(<<"git", "init">>, "", EmptyObject),
                   Step(<<"git", "add">>, "", Obj([all |-> Bool(TRUE)])),
                   Step(<<"git", "commit">>, "",
                        Obj([message |-> Str("Initial commit")])),
                   Step(<<"shell", "exec">>, "", Obj([
                        command |-> Template(<<
                           Str("gh repo create mark1russell7/"),
                           Ref(<<"input", "name">>),
                           Str(" --private --source . --push")>>)]))>>)]))])),
        Step(<<"client", "conditional">>, "", Obj([
             condition |-> NotRef(<<"input", "skipManifest">>),
             then |-> Step(<<"lib", "manifest.add">>, "", Obj([
                packageName |-> Ref(<<"paths", "packageName">>),
                repo |-> Template(<<Str("github:mark1russell7/"),
                                    Ref(<<"input", "name">>), Str("#main")>>),
                path |-> Ref(<<"input", "name">>)]))])),
        Step(<<"client", "identity">>, "", Obj([
             success |-> Bool(TRUE),
             packageName |-> Ref(<<"paths", "packageName">>),
             packagePath |-> Ref(<<"paths", "packagePath">>)]))
      >>)]))

\* the inputs of lib.new tried
NewInputs ==
    {Obj([name |-> Str("test-pkg"), preset |-> Str("node"), rootPath |-> Str("/git"),
          skipGit |-> Bool(skipGit), skipManifest |-> Bool(skipManifest),
          dryRun |-> Bool(dryRun)]) :
       skipGit \in BOOLEAN, skipManifest \in BOOLEAN, dryRun \in BOOLEAN}

NewPackagePath == "/git/test-pkg"
NewManifestPath == "/git/ecosystem/ecosystem.manifest.json"

\* the ctx.client.call(path, input) of a statement of libNew
NewCall(stmt) ==
    CASE stmt = "loadManifest" ->
           [proc |-> <<"fs", "read.json">>,
            input |-> Obj([path |-> Str(NewManifestPath)])]
      [] stmt = "exists" ->
           [proc |-> <<"fs", "exists">>,
            input |-> Obj([path |-> Str(NewPackagePath)])]
      [] stmt = "mkdir" ->
           [proc |-> <<"fs", "mkdir">>,
            input |-> Obj([path |-> Str(NewPackagePath), recursive |-> Bool(TRUE)])]
      [] stmt = "mkdirSrc" ->
           [proc |-> <<"fs", "mkdir">>,
            input |-> Obj([path |-> Str(JoinPath(NewPackagePath, "src")),
                           recursive |-> Bool(TRUE)])]
      [] stmt = "writeIndex" ->
           [proc |-> <<"fs", "write">>,
            input |-> Obj([path |-> Str(JoinPath(NewPackagePath, "src/index.ts")),
                           content |-> Str("// Entry point")])]
      [] stmt = "cueInit" ->
           [proc |-> <<"shell", "exec">>,
            input |-> Obj([command |-> Str("npx cue-config init --preset node --force"),
                           cwd |-> Str(NewPackagePath)])]
      [] stmt = "cueGenerate" ->
           [proc |-> <<"shell", "exec">>,
            input |-> Obj([command |-> Str("npx cue-config generate"),
                           cwd |-> Str(NewPackagePath)])]
      [] stmt = "gitInit" ->
           [proc |-> <<"git", "init">>, input |-> Obj([cwd |-> Str(NewPackagePath)])]
      [] stmt = "gitAdd" ->
           [proc |-> <<"git", "add">>,
            input |-> Obj([all |-> Bool(TRUE), cwd |-> Str(NewPackagePath)])]
      [] stmt = "gitCommit" ->
           [proc |-> <<"git", "commit">>,
            input |-> Obj([message |-> Str("Initial commit"),
                           cwd |-> Str(NewPackagePath)])]
      [] stmt = "ghRepoCreate" ->
           [proc |-> <<"shell", "exec">>,
            input |-> Obj([command |-> Str("gh repo create mark1russell7/test-pkg"
                                            \o " --private --source . --push"),
                           cwd |-> Str(NewPackagePath)])]
      [] stmt = "manifestExists" ->
           [proc |-> <<"fs", "exists">>,
            input |-> Obj([path |-> Str(NewManifestPath)])]
      [] stmt = "manifestRead" ->
           [proc |-> <<"fs", "read.json">>,
            input |-> Obj([path |-> Str(NewManifestPath)])]
      [] stmt = "manifestWrite" ->
           [proc |-> <<"fs", "write">>,
            input |-> Obj([path |-> Str(NewManifestPath)])]

\* libNew goes to a statement, returns { success, ... } or rejects
NewGoto(stmt, errors) == [stmt |-> stmt, errors |-> errors]
NewReturns(ok, errors) == [stmt |-> "return", errors |-> errors, success |-> ok]
NewRejects(errors) == [stmt |-> "rejected", errors |-> errors]

\* Step 5 of libNew, or its return when skipManifest
NewManifestStep(input, errors) ==
    IF ~Truthy(Field(input, "skipManifest")) THEN NewGoto("manifestExists", errors)
    ELSE NewReturns(errors = 0, errors)

AlreadyExistsNever(existsResult) == FALSE

\* if (existsResult.exists)
AlreadyExists(existsResult) == Truthy(Field(existsResult, "exists"))

\* where libNew goes when the call of stmt returned value; errors is
\* errors.length
NewAfterReturn(stmt, value, input, errors) ==
    CASE stmt = "loadManifest" -> NewGoto("exists", errors)
      [] stmt = "exists" ->
           IF AlreadyExists(value) THEN NewReturns(FALSE, 1)
           ELSE IF Truthy(Field(input, "dryRun")) THEN NewReturns(TRUE, 0)
           ELSE NewGoto("mkdir", errors)
      [] stmt = "mkdir" -> NewGoto("mkdirSrc", errors)
      [] stmt = "mkdirSrc" -> NewGoto("writeIndex", errors)
      [] stmt = "writeIndex" -> NewGoto("cueInit", errors)
      [] stmt = "cueInit" -> NewGoto("cueGenerate", errors)
      [] stmt = "cueGenerate" ->
           IF ~Truthy(Field(input, "skipGit")) THEN NewGoto("gitInit", errors)
           ELSE NewManifestStep(input, errors)
      [] stmt = "gitInit" -> NewGoto("gitAdd", errors)
      [] stmt = "gitAdd" -> NewGoto("gitCommit", errors)
      [] stmt = "gitCommit" -> NewGoto("ghRepoCreate", errors)
      [] stmt = "ghRepoCreate" -> NewManifestStep(input, errors)
      [] stmt = "manifestExists" ->
           IF Truthy(Field(value, "exists")) THEN NewGoto("manifestRead", errors)
           ELSE NewReturns(FALSE, errors + 1)
      [] stmt = "manifestRead" ->
           IF Field(value, "data").t = "undefined"
           THEN NewReturns(FALSE, errors + 1)
           ELSE NewGoto("manifestWrite", errors)
      [] stmt = "manifestWrite" -> NewReturns(errors = 0, errors)

\* where libNew goes when the call of stmt threw
NewAfterThrow(stmt, input, errors) ==
    CASE stmt = "loadManifest" -> NewGoto("exists", errors)
      [] stmt = "exists" -> NewRejects(errors)
      [] stmt = "ghRepoCreate" -> NewManifestStep(input, errors + 1)
      [] OTHER -> NewReturns(FALSE, errors + 1)

\* libNew goes to next: it issues the call of a statement, or it is over
NewGoes(run, next) ==
    LET now == run.clock + 1
        call == NewCall(next.stmt)
    IN IF next.stmt \in {"return", "rejected"}
       THEN [run EXCEPT !.stmt = next.stmt, !.errors = next.errors, !.clock = now,
                        !.success = next.stmt = "return" /\ next.success]
       ELSE [run EXCEPT !.stmt = next.stmt, !.errors = next.errors, !.clock = now,
                        !.log = Append(@, [proc |-> call.proc, input |-> call.input,
                                           begun |-> now, ended |-> 0,
                                           failed |-> FALSE, result |-> Undefined])]

\* the call in flight settles at the next tick
NewSettled(run, failed, result) ==
    [run EXCEPT !.log[Len(run.log)].ended = run.clock + 1,
                !.log[Len(run.log)].failed = failed,
                !.log[Len(run.log)].result = result]

\* libNew(input, ctx) is called and runs up to its first await
LibNewCalled ==
    /\ creating # <<>>
    /\ creating.stmt = "start"
    /\ creating' = NewGoes(creating, NewGoto("loadManifest", 0))
    /\ UNCHANGED exceptNew

\* the call awaited returns or throws, and libNew runs up to its next await
LibNewCallSettles ==
    /\ creating # <<>>
    /\ creating.stmt \notin {"start", "return", "rejected"}
    /\ \/ \E value \in Outputs(creating.log[Len(creating.log)].proc) :
             creating' = NewGoes(NewSettled(creating, FALSE, value),
                                 NewAfterReturn(creating.stmt, value,
                                                creating.input, creating.errors))
       \/ creating' = NewGoes(NewSettled(creating, TRUE, Undefined),
                              NewAfterThrow(creating.stmt, creating.input,
                                            creating.errors))
    /\ UNCHANGED exceptNew

\* lib.new either way: the aggregation or the function
InitNew ==
    /\ \E input \in NewInputs :
          \/ /\ aggregation = Aggregation("libNewAggregation", libNewAggregation, input)
             /\ context = [input |-> input]
             /\ frames = NoFrames
             /\ creating = <<>>
          \/ /\ aggregation = <<>>
             /\ context = <<>>
             /\ frames = <<>>
             /\ creating = [input |-> input, stmt |-> "start", log |-> <<>>,
                            errors |-> 0, success |-> FALSE, clock |-> 0]
    /\ calls = <<>>
    /\ clock = 0
    /\ refreshed = <<>>
    /\ refreshOutput = <<>>
    /\ NoDagRun
    /\ NoResolve
    /\ NoSingle
    /\ NoInstall
    /\ NoFs
    /\ NoTraverse
    /\ NoCommand
    /\ NoRegistry
    /\ NoFilter
    /\ NoRename
    /\ NoCatch

NextNew ==
    \/ NextAggregation
    \/ LibNewCalled
    \/ LibNewCallSettles

SpecNew == InitNew /\ [][NextNew]_vars


\* ------------------------------------------------- procedures/dag/traverse
\* input.root is not given
NoRoot == -1

\* nodes.has(dep), for a Map given by its keys in insertion order
KeysHas(keys, dep) == dep \in Range(keys)

\* node.dependencies.filter((dep) => nodes.has(dep))
DepsInMap(keys, deps, n) == SelectSeq(deps[n], LAMBDA dep : KeysHas(keys, dep))

\* dependents.get(dep) of buildLeveledDAG(nodes), in insertion order
DependentsIn(keys, deps, dep) ==
    SelectSeq(keys, LAMBDA name : dep \in Range(deps[name]))

\* for (const name of queue) { ... } of buildLeveledDAG(nodes)
RECURSIVE ProcessQueueIn(_, _, _, _, _)
ProcessQueueIn(keys, deps, queue, currentLevel, st) ==
    IF queue = <<>> THEN st
    ELSE LET name == Head(queue)
             st1 == [st EXCEPT !.nodeLevel[name] = currentLevel,
                               !.levelNodes = Append(@, name),
                               !.processedCount = @ + 1]
         IN ProcessQueueIn(keys, deps, Tail(queue), currentLevel,
                           DecrementDependents(DependentsIn(keys, deps, name), st1))

\* while (queue.length > 0) { ... } of buildLeveledDAG(nodes)
RECURSIVE KahnLoopIn(_, _, _, _)
KahnLoopIn(keys, deps, queue, st) ==
    IF Len(queue) = 0 THEN st
    ELSE LET currentLevel == Len(st.levels)
             st1 == ProcessQueueIn(keys, deps, queue, currentLevel,
                      [inDegree |-> st.inDegree, nodeLevel |-> st.nodeLevel,
                       processedCount |-> st.processedCount,
                       levelNodes |-> <<>>, nextQueue |-> <<>>])
         IN KahnLoopIn(keys, deps, st1.nextQueue,
                       [inDegree |-> st1.inDegree, nodeLevel |-> st1.nodeLevel,
                        processedCount |-> st1.processedCount,
                        levels |-> Append(st.levels, st1.levelNodes)])

\* buildLeveledDAG(nodes) for a Map that holds some of the packages: keys
\* are its keys in insertion order, deps the dependency arrays of its nodes
buildLeveledDAGOf(keys, deps) ==
    LET inDegree == [n \in Nodes |->
                       IF KeysHas(keys, n) THEN Len(DepsInMap(keys, deps, n)) ELSE 0]
        queue == SelectSeq(keys, LAMBDA name : inDegree[name] = 0)
        st == KahnLoopIn(keys, deps, queue,
                [inDegree |-> inDegree, nodeLevel |-> [n \in Nodes |-> NoLevel],
                 processedCount |-> 0, levels |-> <<>>])
    IN IF CycleDetected(st.processedCount, Len(keys))
       THEN [status |-> "cycle", levels |-> <<>>, nodeLevel |-> st.nodeLevel,
             cycleNodes |-> SelectSeq(keys, LAMBDA n : NeverEmitted(st.nodeLevel, n)),
             inDegree |-> st.inDegree, roots |-> <<>>, leaves |-> <<>>]
       ELSE [status |-> "ok", levels |-> st.levels, nodeLevel |-> st.nodeLevel,
             cycleNodes |-> <<>>, inDegree |-> st.inDegree,
             roots |-> SelectSeq(keys,
                          LAMBDA name : Len(DependentsIn(keys, deps, name)) = 0),
             leaves |-> SelectSeq(keys,
                          LAMBDA name : Len(DepsInMap(keys, deps, name)) = 0)]

\* for (const name of input.filter) { const node = allNodes.get(name);
\*   if (node) { filtered.set(name, node); } }
RECURSIVE FilterByNames(_, _, _)
FilterByNames(keys, names, filtered) ==
    IF names = <<>> THEN filtered
    ELSE LET name == Head(names)
         IN FilterByNames(keys, Tail(names),
               IF KeysHas(keys, name) /\ name \notin Range(filtered)
               THEN Append(filtered, name) ELSE filtered)

\* visit(name) of filterDAGFromRoot, and its loop over node.dependencies
RECURSIVE Visit(_, _, _, _)
RECURSIVE VisitDependencies(_, _, _, _)
Visit(keys, deps, name, st) ==
    IF name \in st.visited THEN st
    ELSE LET st1 == [st EXCEPT !.visited = @ \cup {name}]
         IN IF ~KeysHas(keys, name) THEN st1
            ELSE VisitDependencies(keys, deps, deps[name],
                                   [st1 EXCEPT !.filtered = Append(@, name)])

VisitDependencies(keys, deps, ds, st) ==
    IF ds = <<>> THEN st
    ELSE VisitDependencies(keys, deps, Tail(ds), Visit(keys, deps, Head(ds), st))

\* the mutant of filterDAGFromRoot: the root alone, without its dependencies
filterRootOnly(keys, deps, rootName) ==
    IF KeysHas(keys, rootName) THEN <<rootName>> ELSE <<>>

\* filterDAGFromRoot(nodes, rootName): the keys of the Map it returns
filterDAGFromRoot(keys, deps, rootName) ==
    Visit(keys, deps, rootName, [visited |-> {}, filtered |-> <<>>]).filtered

\* allNodes of dagTraverse after the filter and the root blocks; found is
\* FALSE when allNodes.get(input.root) is undefined
SelectNodes(input, deps) ==
    LET byFilter == IF Len(input.filter) > 0
                    THEN FilterByNames(NodeKeys, input.filter, <<>>)
                    ELSE NodeKeys
    IN IF input.root = NoRoot
       THEN [found |-> TRUE, keys |-> byFilter]
       ELSE IF ~KeysHas(byFilter, input.root)
       THEN [found |-> FALSE, keys |-> byFilter]
       ELSE [found |-> TRUE, keys |-> filterDAGFromRoot(byFilter, deps, input.root)]

\* the scanned packages: each lists packages scanned before it
TraverseGraphs ==
    {d \in PlainDependencies :
        \A n \in Nodes : Len(d[n]) <= 1 /\ \A m \in Range(d[n]) : m < n}

\* input.filter: none, or two names, the second possibly of no package
TraverseFilters ==
    {<<>>} \cup {f \in Nodes \X Names : f[1] # f[2]}

TraverseInputs ==
    [filter : TraverseFilters, root : Nodes \cup {NoRoot},
     concurrency : 1..MaxConcurrency, continueOnError : BOOLEAN, dryRun : BOOLEAN]

\* a TraverseNodeResult
TraverseNodeResult(name, ok) == [name |-> name, success |-> ok]

\* the return value of dagTraverse
TraverseOutput(ok, rs) ==
    [success |-> ok, results |-> rs,
     visited |-> Cardinality({i \in DOMAIN rs : rs[i].success}),
     failed |-> Cardinality({i \in DOMAIN rs : ~rs[i].success})]

\* dagTraverse(input, ctx) up to executeDAG: the scan, the filter, the root
\* (an early return when the root is not among the nodes), buildLeveledDAG
DagTraverseCalled ==
    /\ traversing.phase = "idle"
    /\ LET selected == SelectNodes(traversing.input, dependencies)
       IN IF ~selected.found
          THEN /\ traversing' = [traversing EXCEPT
                     !.phase = "returned", !.allNodes = selected.keys,
                     !.output = TraverseOutput(FALSE, <<>>)]
               /\ UNCHANGED <<dag, pc>>
          ELSE /\ traversing' = [traversing EXCEPT !.phase = "dag",
                                                   !.allNodes = selected.keys]
               /\ dag' = buildLeveledDAGOf(selected.keys, dependencies)
               /\ pc' = IF dag'.status = "ok" THEN "planned" ELSE "threw"
    /\ UNCHANGED <<exceptTraverse, dependencies, execVars, levelIdx, shouldStop,
                   results, failedNodes, success, itemIdx, executing,
                   levelResults, awaiting, proc, started>>

\* the processors invoked before this one in the same level have settled
FirstRunning(node) ==
    LET level == dag.levels[levelIdx]
        at(n) == CHOOSE i \in DOMAIN level : level[i] = n
    IN \A m \in Nodes : proc[m].stage = "running" => at(node) <= at(m)

\* the processor of dagTraverse settles for a node.  In a dry run the
\* function given to createProcessor pushes a result and returns, awaiting
\* nothing, so the processors settle in the order they were invoked;
\* otherwise ctx.client.call(visitPath, visitInput), made when the processor
\* was invoked, returns or throws, a result is pushed and a throw is
\* re-thrown to createProcessor
TraverseProcessorSettles(node) ==
    /\ traversing.phase = "dag"
    /\ proc[node].stage = "running"
    /\ \E outcome \in {"returns", "throws"} :
          /\ traversing.input.dryRun => outcome = "returns" /\ FirstRunning(node)
          /\ traversing' = [traversing EXCEPT !.results =
                               Append(@, TraverseNodeResult(node, outcome = "returns"))]
          /\ proc' = [proc EXCEPT ![node] =
                        [stage |-> "settled", outcome |-> "fulfilled",
                         result |-> createProcessor(outcome, node)]]
    /\ UNCHANGED <<exceptTraverse, dependencies, dag, execVars, pc, levelIdx,
                   shouldStop, results, failedNodes, success, itemIdx, executing,
                   levelResults, awaiting, started>>

\* for (const [name, nodeResult] of dagResult.results) { if (!existing) ... }
RECURSIVE EnsureResults(_, _, _)
EnsureResults(names, dagResults, rs) ==
    IF names = <<>> THEN rs
    ELSE LET name == Head(names)
             existing == \E i \in DOMAIN rs : rs[i].name = name
         IN EnsureResults(Tail(names), dagResults,
               IF name \in DOMAIN dagResults /\ ~existing
               THEN Append(rs, TraverseNodeResult(name, dagResults[name].success))
               ELSE rs)

\* executeDAG returned: outside a dry run every node of dagResult.results
\* gets a result, then dagTraverse returns
DagTraverseReturns ==
    /\ traversing.phase = "dag"
    /\ pc = "returned"
    /\ LET rs == IF traversing.input.dryRun THEN traversing.results
                 ELSE EnsureResults(Flatten(dag.levels), results, traversing.results)
       IN traversing' = [traversing EXCEPT !.phase = "returned", !.results = rs,
                                           !.output = TraverseOutput(success, rs)]
    /\ UNCHANGED <<dagVars, exceptTraverse>>

InitTraverse ==
    /\ dependencies \in TraverseGraphs
    /\ wrapped = TRUE
    /\ callbacks = NoCallbacks
    /\ \E input \in TraverseInputs :
          /\ concurrency = input.concurrency
          /\ failFast = ~input.continueOnError
          /\ traversing = [input |-> input, phase |-> "idle", allNodes |-> <<>>,
                           results |-> <<>>, output |-> <<>>]
    /\ InitExecutorState
    /\ NoRun
    /\ NoResolve
    /\ NoSingle
    /\ NoInstall
    /\ NoFs
    /\ NoNew
    /\ NoCommand
    /\ NoRegistry
    /\ NoFilter
    /\ NoRename
    /\ NoCatch

NextTraverse ==
    \/ DagTraverseCalled
    \/ ExecuteDAG
    \/ StartLevel
    \/ Return
    \/ \E node \in Nodes : TraverseProcessorSettles(node)
    \/ \E node \in Nodes : ThenCallback(node)
    \/ ResumeAfterRace
    \/ CollectLevel
    \/ DagTraverseReturns

SpecTraverse == InitTraverse /\ [][NextTraverse]_vars


\* ------------------------------------------------- shell/executor
\* the helpers that spawn a process
Helpers == {"pnpmInstall", "pnpmBuild", "removeDir", "removeFile"}

\* process.platform === "win32", or not
Platforms == {"win32", "other"}

\* options.timeout of the executeCommand call each helper makes, in ms; the
\* win32 branch of removeDir and removeFile passes the same value
HelperTimeout(helper, platform) ==
    CASE helper = "pnpmInstall" -> 300000
      [] helper = "pnpmBuild" -> 120000
      [] helper = "removeDir" -> 30000
      [] helper = "removeFile" -> 10000

\* the time between two observations of the clock, in ms, and how long the
\* clock is watched
TickMs == 10000
MaxElapsed == 31

\* code of the close event: null when the process ended by a signal
ExitCodes == {0, 1, -1}
NullCode == -1

\* resolve(value) / reject(error) of the Promise executor: the first call
\* settles the promise, a call on a settled promise does nothing
Settle(promise, outcome) ==
    IF promise.state = "pending"
    THEN [state |-> outcome.state, value |-> outcome.value,
          settlements |-> promise.settlements + 1]
    ELSE promise

ClearTimeoutNot(timer) == timer

\* if (timeoutId) clearTimeout(timeoutId): a timer that has not fired never will
ClearTimeout(timer) == IF timer = "armed" THEN "cleared" ELSE timer

\* resolve({ code: code ?? 1, ..., success: code === 0 })
ShellResult(code) ==
    [state |-> "resolved",
     value |-> [code |-> IF code = NullCode THEN 1 ELSE code, success |-> code = 0]]

\* reject(new Error(`Command timed out after ${timeout}ms`))
TimedOut(timeout) == [state |-> "rejected", value |-> [timedOut |-> timeout]]

\* reject(error) of the error event
SpawnError == [state |-> "rejected", value |-> [timedOut |-> 0]]

\* a helper is called: executeCommand spawns the process and, timeout being
\* set, arms the timer
CommandCalled ==
    /\ spawned.stage = "idle"
    /\ LET timeout == HelperTimeout(spawned.helper, spawned.platform)
       IN spawned' = [spawned EXCEPT
             !.stage = "spawned", !.timeout = timeout,
             !.timer = IF timeout # 0 THEN "armed" ELSE "none",
             !.process = "running"]
    /\ UNCHANGED exceptCommand

\* time passes
Tick ==
    /\ spawned.stage = "spawned"
    /\ spawned.elapsed < MaxElapsed
    /\ spawned' = [spawned EXCEPT !.elapsed = @ + 1]
    /\ UNCHANGED exceptCommand

\* the setTimeout callback: proc.kill("SIGTERM"); reject(new Error(...))
TimeoutFires ==
    /\ spawned.stage = "spawned"
    /\ spawned.timer = "armed"
    /\ spawned.elapsed * TickMs >= spawned.timeout
    /\ spawned' = [spawned EXCEPT
          !.timer = "fired", !.killed = TRUE,
          !.promise = Settle(@, TimedOut(spawned.timeout))]
    /\ UNCHANGED exceptCommand

\* proc.on("error"): the process could not be spawned or killed
ProcessErrors ==
    /\ spawned.stage = "spawned"
    /\ spawned.process = "running"
    /\ ~spawned.errored
    /\ spawned' = [spawned EXCEPT
          !.errored = TRUE, !.timer = ClearTimeout(@),
          !.promise = Settle(@, SpawnError)]
    /\ UNCHANGED exceptCommand

\* proc.on("close"): the process has ended, by itself or by a signal
\* (code null); a process sent SIGTERM may still end with a code of its own
ProcessCloses ==
    /\ spawned.stage = "spawned"
    /\ spawned.process = "running"
    /\ \E code \in ExitCodes :
          /\ code = NullCode => spawned.killed
          /\ spawned' = [spawned EXCEPT
                !.process = "closed", !.code = code, !.timer = ClearTimeout(@),
                !.promise = Settle(@, ShellResult(code))]
    /\ UNCHANGED exceptCommand

InitCommand ==
    /\ \E helper \in Helpers, platform \in Platforms :
          spawned = [helper |-> helper, platform |-> platform, stage |-> "idle",
                     timeout |-> 0, timer |-> "none", elapsed |-> 0,
                     process |-> "none", killed |-> FALSE, errored |-> FALSE,
                     code |-> NullCode,
                     promise |-> [state |-> "pending", value |-> <<>>,
                                  settlements |-> 0]]
    /\ dependencies = [n \in Nodes |-> <<>>]
    /\ concurrency = 1
    /\ failFast = TRUE
    /\ wrapped = TRUE
    /\ callbacks = NoCallbacks
    /\ InitExecutorState
    /\ NoRun
    /\ NoResolve
    /\ NoSingle
    /\ NoInstall
    /\ NoFs
    /\ NoNew
    /\ NoTraverse
    /\ NoRegistry
    /\ NoFilter
    /\ NoRename
    /\ NoCatch

NextCommand ==
    \/ CommandCalled
    \/ Tick
    \/ TimeoutFires
    \/ ProcessErrors
    \/ ProcessCloses

SpecCommand == InitCommand /\ [][NextCommand]_vars


\* ------------------------------------------------------------ lib.rename
\* A package name is the scope "@mark1russell7/" (or none) and what follows
\* it; a short name is a sequence of parts, so that one short name can be
\* the beginning of another one as it can be in a string.
PkgNames ==
    {[scoped |-> FALSE, short |-> <<"client">>],
     [scoped |-> TRUE, short |-> <<"client">>],
     [scoped |-> TRUE, short |-> <<"cue">>]}

\* name.replace("@mark1russell7/", "")
ShortName(name) == name.short

\* the value of a dependency: a semver range, or "github:mark1russell7/"
\* followed by a repository and a ref
Semver == [kind |-> "semver", target |-> <<>>]
Github(target) == [kind |-> "github", target |-> target]
DepValues == {Semver, Github(<<"client">>), Github(<<"cue", "-lib">>)}

\* oldValue.includes(`github:mark1russell7/${short}`)
IncludesGithub(value, short) ==
    /\ value.kind = "github"
    /\ Len(value.target) >= Len(short)
    /\ SubSeq(value.target, 1, Len(short)) = short

\* oldValue.replace(`github:mark1russell7/${oldShort}`, `github:mark1russell7/${newShort}`)
ReplaceGithub(value, oldShort, newShort) ==
    [value EXCEPT !.target =
        newShort \o SubSeq(value.target, Len(oldShort) + 1, Len(value.target))]

\* an object of package.json is the sequence of its entries <<key, value>>
\* in the order of its keys, which is the order JSON.stringify writes
ObjectKeys(obj) == {obj[i][1] : i \in 1..Len(obj)}
KeyIn(key, obj) == key \in ObjectKeys(obj)
ObjectGet(obj, key) == obj[CHOOSE i \in 1..Len(obj) : obj[i][1] = key][2]
IsEntryOf(key, entry) == entry[1] = key

\* delete deps[key]
ObjectDelete(obj, key) == SelectSeq(obj, LAMBDA entry : ~IsEntryOf(key, entry))

\* deps[key] = value: a key the object has keeps its place, a new key is
\* added after the others
ObjectSet(obj, key, value) ==
    IF KeyIn(key, obj)
    THEN [i \in 1..Len(obj) |-> IF obj[i][1] = key THEN <<key, value>> ELSE obj[i]]
    ELSE Append(obj, <<key, value>>)

depFields == {"dependencies", "devDependencies", "peerDependencies", "optionalDependencies"}

\* updatePackageJsonName: pkg.name = newName when the name is the old one
updatePackageJsonName(pkg, oldName, newName, dryRun) ==
    IF pkg.name = oldName /\ ~dryRun THEN [pkg EXCEPT !.name = newName] ELSE pkg

\* the new value of one dependency of updatePackageJsonDependencies
NewDepValue(oldValue, oldName, newName) ==
    IF IncludesGithub(oldValue, ShortName(oldName))
    THEN ReplaceGithub(oldValue, ShortName(oldName), ShortName(newName))
    ELSE oldValue

\* one field of updatePackageJsonDependencies: delete deps[oldName], then
\* deps[newName] = newValue
UpdateDeps(deps, oldName, newName, dryRun) ==
    IF KeyIn(oldName, deps) /\ ~dryRun
    THEN ObjectSet(ObjectDelete(deps, oldName), newName,
                   NewDepValue(ObjectGet(deps, oldName), oldName, newName))
    ELSE deps

updatePackageJsonDependencies(pkg, oldName, newName, dryRun) ==
    [pkg EXCEPT !.fields =
        [field \in depFields |-> UpdateDeps(pkg.fields[field], oldName, newName, dryRun)]]

\* an import of a TypeScript file: a declaration or a call of import(), the
\* quote of its string literal, the package it names and a subpath
Quotes == {"single", "double"}
Subpaths == {"", "/types"}
Imports ==
    [type : {"import", "dynamic-import"}, quote : Quotes, name : PkgNames,
     subpath : Subpaths]

\* moduleSpecifier === oldName || moduleSpecifier.startsWith(`${oldName}/`):
\* none of PkgNames begins with another one followed by "/"
MatchesOldName(imp, oldName) == imp.name = oldName

\* importDecl.setModuleSpecifier(newSpecifier) keeps the quote of the
\* literal; arg.replaceWithText(`"${newValue}"`) writes double quotes
UpdateImport(imp, oldName, newName, dryRun) ==
    IF MatchesOldName(imp, oldName) /\ ~dryRun
    THEN [imp EXCEPT !.name = newName,
                     !.quote = IF imp.type = "dynamic-import" THEN "double" ELSE @]
    ELSE imp

updateTypeScriptImports(file, oldName, newName, dryRun) ==
    [i \in 1..Len(file) |-> UpdateImport(file[i], oldName, newName, dryRun)]

\* libRename over a tree of one package.json and one TypeScript file
libRename(tree, oldName, newName, dryRun) ==
    [pkg |-> updatePackageJsonDependencies(
                 updatePackageJsonName(tree.pkg, oldName, newName, dryRun),
                 oldName, newName, dryRun),
     ts |-> updateTypeScriptImports(tree.ts, oldName, newName, dryRun)]

\* the sequences of distinct keys, in any order
RECURSIVE KeyOrders(_)
KeyOrders(keys) ==
    IF keys = {} THEN {<<>>}
    ELSE {<<>>} \cup UNION {{<<k>> \o rest : rest \in KeyOrders(keys \ {k})} : k \in keys}

\* the objects that have some of PkgNames as keys and lack at least one
DepObjects ==
    UNION {{[i \in 1..Len(order) |-> <<order[i], value[i]>>] :
                value \in [1..Len(order) -> DepValues]} :
           order \in UNION {KeyOrders(PkgNames \ {name}) : name \in PkgNames}}

\* the trees renamed: dependencies in two of the four fields, at most one
\* import
RenameTrees ==
    {[pkg |-> [name |-> name,
               fields |-> [field \in depFields |->
                              IF field = "dependencies" THEN deps
                              ELSE IF field = "devDependencies" THEN dev
                              ELSE <<>>]],
      ts |-> ts] :
        name \in PkgNames, deps \in DepObjects,
        dev \in {<<>>} \cup {<<<<key, Semver>>>> : key \in PkgNames},
        ts \in {<<>>} \cup {<<imp>> : imp \in Imports}}

RenameInputs ==
    {[oldName |-> names[1], newName |-> names[2], dryRun |-> dry, original |-> tree] :
        names \in {pair \in PkgNames \X PkgNames : pair[1] # pair[2]},
        dry \in BOOLEAN, tree \in RenameTrees}

\* lib.rename is called with oldName and newName
LibRenameCalled ==
    /\ renaming.step = "start"
    /\ renaming' = [renaming EXCEPT
            !.step = "renamed",
            !.tree = libRename(renaming.tree, renaming.oldName, renaming.newName,
                               renaming.dryRun)]
    /\ UNCHANGED exceptRename

\* lib.rename is called again with the two names exchanged
LibRenameCalledBack ==
    /\ renaming.step = "renamed"
    /\ renaming' = [renaming EXCEPT
            !.step = "back",
            !.tree = libRename(renaming.tree, renaming.newName, renaming.oldName,
                               renaming.dryRun)]
    /\ UNCHANGED exceptRename

InitRename ==
    /\ NoRun /\ NoDagRun /\ NoResolve /\ NoSingle /\ NoInstall /\ NoFs /\ NoNew
    /\ NoTraverse /\ NoCommand /\ NoRegistry /\ NoFilter /\ NoCatch
    /\ \E input \in RenameInputs :
        renaming = [step |-> "start", oldName |-> input.oldName,
                    newName |-> input.newName, dryRun |-> input.dryRun,
                    original |-> input.original, tree |-> input.original]

NextRename == LibRenameCalled \/ LibRenameCalledBack

SpecRename == InitRename /\ [][NextRename]_vars


\* ------------------------------------------------------------ the registry
\* A segment of a path is a string; it is modelled by the sequence of the
\* pieces between its dots, so that "lib.new" is <<"lib", "new">> and "lib"
\* is <<"lib">>. A path is a sequence of segments.
Segment(word) == <<word>>
PathOf(words) == [i \in 1..Len(words) |-> Segment(words[i])]

\* aggregationRegistry, entry by entry, by the path of each entry
aggregationRegistry ==
    <<PathOf(<<"agg", "git", "commitAndPush">>),
      PathOf(<<"agg", "git", "initWorkflow">>),
      PathOf(<<"agg", "git", "pull">>),
      PathOf(<<"agg", "pnpm", "installAndBuild">>),
      PathOf(<<"agg", "pnpm", "install">>),
      PathOf(<<"agg", "cleanup", "force">>),
      PathOf(<<"agg", "fs", "ensureDir">>),
      PathOf(<<"agg", "lib", "new">>),
      PathOf(<<"agg", "lib", "scaffold">>),
      PathOf(<<"agg", "lib", "refresh", "single">>),
      PathOf(<<"agg", "lib", "refresh">>),
      PathOf(<<"agg", "lib", "install", "cloneMissing">>),
      PathOf(<<"agg", "lib", "install", "single">>),
      PathOf(<<"agg", "lib", "install">>),
      PathOf(<<"agg", "lib", "pull", "single">>),
      PathOf(<<"agg", "lib", "pull">>)>>

RegistryPaths == {aggregationRegistry[i] : i \in 1..Len(aggregationRegistry)}

\* path.join("."): the string, as the sequence of the pieces between its
\* dots; the empty path gives the empty string, which is one empty piece
JoinDots(path) == IF path = <<>> THEN <<"">> ELSE Flatten(path)

\* (r) => r.path.join(".") === pathStr
SamePathStr(registered, pathStr) == JoinDots(registered) = pathStr

\* getAggregation(path): aggregationRegistry.find(...), <<>> for undefined
getAggregation(path) ==
    LET pathStr == JoinDots(path)
        hits == {i \in 1..Len(aggregationRegistry) :
                    SamePathStr(aggregationRegistry[i], pathStr)}
    IN IF hits = {} THEN <<>>
       ELSE <<aggregationRegistry[CHOOSE i \in hits : \A j \in hits : i <= j]>>

\* the beginnings of a path, the empty one and the path itself included
PathPrefixes(path) == {SubSeq(path, 1, n) : n \in 0..Len(path)}

\* the path with segments i and i + 1 given as the one segment "a.b"
MergeAt(path, i) ==
    SubSeq(path, 1, i - 1) \o <<path[i] \o path[i + 1]>>
        \o SubSeq(path, i + 2, Len(path))

\* the paths looked up: the registered ones, their beginnings, the same
\* with one more segment or with another first segment, with two segments
\* written as one, with everything written as one segment, and [""]
LookupPaths ==
    UNION {PathPrefixes(p) : p \in RegistryPaths}
    \cup {Append(p, Segment("single")) : p \in RegistryPaths}
    \cup {<<Segment("non")>> \o Tail(p) : p \in RegistryPaths}
    \cup UNION {{MergeAt(p, i) : i \in 1..(Len(p) - 1)} : p \in RegistryPaths}
    \cup {<<JoinDots(p)>> : p \in RegistryPaths}
    \cup {<<Segment("")>>, PathOf(<<"non", "existent", "path">>)}

\* getAggregation(path) is called
GetAggregationCalled ==
    /\ ~found.called
    /\ found' = [found EXCEPT !.called = TRUE, !.result = getAggregation(found.path)]
    /\ UNCHANGED <<registering, exceptRegistry>>

InitLookup ==
    /\ NoRun /\ NoDagRun /\ NoResolve /\ NoSingle /\ NoInstall /\ NoFs /\ NoNew
    /\ NoTraverse /\ NoCommand /\ NoFilter /\ NoRename /\ NoCatch
    /\ registering = <<>>
    /\ \E path \in LookupPaths : found = [path |-> path, called |-> FALSE, result |-> <<>>]

NextLookup == GetAggregationCalled

SpecLookup == InitLookup /\ [][NextLookup]_vars


\* ---------------------------------------- registerAggregationProcedures
\* options.filter: absent, or a function of the path that accepts it,
\* rejects it or throws
NoFilterOption == [kind |-> "absent", accepts |-> {}, throwsOn |-> {}]
FilterOption(accepts, throwsOn) ==
    [kind |-> "function", accepts |-> accepts, throwsOn |-> throwsOn]

GitPaths == {p \in RegistryPaths : p[Len(<<"agg", "git">>)] = Segment("git")}

FilterOptions ==
    {NoFilterOption,
     FilterOption(RegistryPaths, {}),
     FilterOption({}, {}),
     FilterOption(GitPaths, {}),
     FilterOption(RegistryPaths \ GitPaths, {}),
     FilterOption(RegistryPaths, {PathOf(<<"agg", "lib", "new">>)})}

\* the paths for which client.call(["procedure", "define"], ...) rejects:
\* none, all of them, any one or any two
FailingDefines ==
    {{}, RegistryPaths} \cup {{p, q} : p, q \in RegistryPaths}

\* filter && !filter(entry.path)
FilterRejects(filter, path) == filter.kind = "function" /\ path \notin filter.accepts
FilterThrows(filter, path) == filter.kind = "function" /\ path \in filter.throwsOn

\* the entry of the current turn of the for loop
CurrentEntry == aggregationRegistry[registering.index]

\* the mutant of Caught: no try around the call
NotCaught(reg, pathStr) == [reg EXCEPT !.state = "rejected"]

\* catch (error) { errors.push({ path: pathStr, error: errorMessage }) }
Caught(reg, pathStr) ==
    [reg EXCEPT !.errors = Append(@, pathStr), !.state = "loop",
                !.index = @ + 1]

\* one turn of the for loop up to its await: the filter, skipped.push and
\* continue, or the call of procedure.define
RegisterNextEntry ==
    /\ registering.state = "loop"
    /\ registering.index <= Len(aggregationRegistry)
    /\ LET path == CurrentEntry
           pathStr == JoinDots(path)
       IN registering' =
            IF FilterThrows(registering.filter, path)
            THEN [registering EXCEPT !.state = "rejected", !.filterThrew = TRUE]
            ELSE IF FilterRejects(registering.filter, path)
            THEN [registering EXCEPT !.skipped = Append(@, pathStr), !.index = @ + 1]
            ELSE [registering EXCEPT !.state = "awaiting", !.defined = Append(@, path)]
    /\ UNCHANGED <<found, exceptRegistry>>

\* await client.call(["procedure", "define"], ...) settles: registered.push
\* or the catch block
DefineSettles ==
    /\ registering.state = "awaiting"
    /\ LET path == CurrentEntry
           pathStr == JoinDots(path)
       IN registering' =
            IF path \in registering.failing
            THEN Caught(registering, pathStr)
            ELSE [registering EXCEPT !.registered = Append(@, pathStr),
                                     !.state = "loop", !.index = @ + 1]
    /\ UNCHANGED <<found, exceptRegistry>>

\* return { registered, skipped, errors }
RegisterReturns ==
    /\ registering.state = "loop"
    /\ registering.index > Len(aggregationRegistry)
    /\ registering' = [registering EXCEPT !.state = "returned"]
    /\ UNCHANGED <<found, exceptRegistry>>

InitRegister ==
    /\ NoRun /\ NoDagRun /\ NoResolve /\ NoSingle /\ NoInstall /\ NoFs /\ NoNew
    /\ NoTraverse /\ NoCommand /\ NoFilter /\ NoRename /\ NoCatch
    /\ found = <<>>
    /\ \E filter \in FilterOptions, failing \in FailingDefines :
        registering = [filter |-> filter, failing |-> failing, state |-> "loop",
                       index |-> 1, defined |-> <<>>,
                       registered |-> <<>>, skipped |-> <<>>, errors |-> <<>>,
                       filterThrew |-> FALSE]

NextRegister ==
    \/ RegisterNextEntry
    \/ DefineSettles
    \/ RegisterReturns

SpecRegister == InitRegister /\ [][NextRegister]_vars


\* ------------------------------------------------------ filterDAGFromRoot
\* the Maps filtered: any dependency lists among the nodes, cycles included,
\* and possibly one further entry of the first node that repeats an entry,
\* names the node itself or names no node of the Map
FilterGraphs ==
    {AddExtras(d, e) :
        d \in PlainDependencies,
        e \in {<<>>} \cup {<<<<Head(NodeKeys), name>>>> : name \in Names}}

\* filterDAGFromRoot(nodes, rootName) is called and returns
FilterDAGFromRootCalled ==
    /\ ~filtering.called
    /\ filtering' = [filtering EXCEPT
            !.called = TRUE,
            !.result = filterDAGFromRoot(NodeKeys, filtering.deps, filtering.rootName)]
    /\ UNCHANGED exceptFilter

InitFilter ==
    /\ NoRun /\ NoDagRun /\ NoResolve /\ NoSingle /\ NoInstall /\ NoFs /\ NoNew
    /\ NoTraverse /\ NoCommand /\ NoRegistry /\ NoRename /\ NoCatch
    /\ \E deps \in FilterGraphs, rootName \in Names :
        filtering = [deps |-> deps, rootName |-> rootName, called |-> FALSE,
                     result |-> <<>>]

NextFilter == FilterDAGFromRootCalled

\* the call is one synchronous function: once made it runs to its end
SpecFilter == InitFilter /\ [][NextFilter]_vars /\ WF_vars(NextFilter)


\* ------------------------------------------------------------ core.catch
\* what the handler procedure resolves with: nothing, an object without
\* continue, or an object with it
HandlerDecisions ==
    {[kind |-> "undefined", continue |-> "none"],
     [kind |-> "object", continue |-> "none"],
     [kind |-> "object", continue |-> "true"],
     [kind |-> "object", continue |-> "false"]}

\* the input of core.catch: whether try is a procedure ref, what handler is,
\* whether cwd is given, and whether the inputs of the two refs hold nested
\* refs that hydrateInput executes
CatchInputs ==
    [tryIsRef : BOOLEAN, handler : {"absent", "noRef", "ref"}, cwd : BOOLEAN,
     tryNested : BOOLEAN, handlerNested : BOOLEAN]

NoCatchOutput == [success |-> FALSE, continue |-> FALSE, error |-> "none"]

\* return { success: true, result, continue: true }
TrySucceeded == [success |-> TRUE, continue |-> TRUE, error |-> "none"]

\* return { success: false, error: errorMessage, continue: false }
TryFailedWithoutHandler == [success |-> FALSE, continue |-> FALSE, error |-> "try"]

\* decision.continue ?? false
ContinueOf(decision) ==
    IF decision.continue = "none" THEN FALSE ELSE decision.continue = "true"

\* the mutant of HandlerFailed: no try around the call of the handler
HandlerFailurePropagates(c) == [c EXCEPT !.state = "rejected", !.cause = "handler"]

\* catch (handlerError): return { success: false, error: "Handler failed:
\* ...", continue: false }
HandlerFailed(c) ==
    [c EXCEPT !.state = "returned",
              !.output = [success |-> FALSE, continue |-> FALSE,
                          error |-> "Handler failed"]]

\* the call of a procedure by ctx.client.call, with cwd when it is given
CatchCall(c, called) == Append(c.calls, [proc |-> called, cwd |-> c.input.cwd])

\* coreCatch(input, ctx) up to its first await: the validation of try
CoreCatchCalled ==
    /\ catching.stmt = "start"
    /\ catching' =
         IF ~catching.input.tryIsRef
         THEN [catching EXCEPT !.stmt = "end", !.state = "rejected",
                               !.cause = "validation"]
         ELSE [catching EXCEPT !.stmt = "hydrateTry"]
    /\ UNCHANGED exceptCatch

\* await hydrateInput(tryInput, ...) settles; it can reject only when a
\* nested ref was executed. The try procedure is called next.
HydrateTrySettles ==
    /\ catching.stmt = "hydrateTry"
    /\ \E rejects \in {FALSE, catching.input.tryNested} :
        catching' =
          IF rejects
          THEN [catching EXCEPT !.stmt = "end", !.state = "rejected",
                                !.cause = "hydration"]
          ELSE [catching EXCEPT !.stmt = "try", !.calls = CatchCall(catching, "try")]
    /\ UNCHANGED exceptCatch

\* await ctx.client.call(normalizedTry.path, ...) settles
TrySettles ==
    /\ catching.stmt = "try"
    /\ \E fulfilled \in BOOLEAN :
        catching' =
          IF fulfilled
          THEN [catching EXCEPT !.stmt = "end", !.state = "returned",
                                !.tryFailed = FALSE, !.output = TrySucceeded]
          ELSE IF catching.input.handler # "ref"
          THEN [catching EXCEPT !.stmt = "end", !.state = "returned",
                                !.tryFailed = TRUE,
                                !.output = TryFailedWithoutHandler]
          ELSE [catching EXCEPT !.stmt = "hydrateHandler", !.tryFailed = TRUE]
    /\ UNCHANGED exceptCatch

\* await hydrateInput(handlerInput, ...) settles, inside the catch block
\* and outside the inner try. The handler is called next.
HydrateHandlerSettles ==
    /\ catching.stmt = "hydrateHandler"
    /\ \E rejects \in {FALSE, catching.input.handlerNested} :
        catching' =
          IF rejects
          THEN [catching EXCEPT !.stmt = "end", !.state = "rejected",
                                !.cause = "hydration"]
          ELSE [catching EXCEPT !.stmt = "handler",
                                !.calls = CatchCall(catching, "handler")]
    /\ UNCHANGED exceptCatch

\* await ctx.client.call(normalizedHandler.path, ...) settles: the handler
\* failed, or it resolved with a decision; reading continue of undefined
\* throws inside the inner try
HandlerSettles ==
    /\ catching.stmt = "handler"
    /\ \/ catching' = [HandlerFailed(catching) EXCEPT
                          !.stmt = "end", !.handlerFailed = TRUE]
       \/ \E decision \in HandlerDecisions :
            catching' =
              IF decision.kind = "undefined"
              THEN [HandlerFailed(catching) EXCEPT
                       !.stmt = "end", !.decision = <<decision>>]
              ELSE [catching EXCEPT
                       !.stmt = "end", !.state = "returned",
                       !.decision = <<decision>>,
                       !.output = [success |-> FALSE,
                                   continue |-> ContinueOf(decision),
                                   error |-> "try"]]
    /\ UNCHANGED exceptCatch

InitCatch ==
    /\ NoRun /\ NoDagRun /\ NoResolve /\ NoSingle /\ NoInstall /\ NoFs /\ NoNew
    /\ NoTraverse /\ NoCommand /\ NoRegistry /\ NoFilter /\ NoRename
    /\ \E input \in CatchInputs :
        catching = [input |-> input, stmt |-> "start", state |-> "pending",
                    cause |-> "none", calls |-> <<>>, tryFailed |-> FALSE,
                    handlerFailed |-> FALSE, decision |-> <<>>,
                    output |-> NoCatchOutput]

NextCatch ==
    \/ CoreCatchCalled
    \/ HydrateTrySettles
    \/ TrySettles
    \/ HydrateHandlerSettles
    \/ HandlerSettles

SpecCatch == InitCatch /\ [][NextCatch]_vars


\* ------------------------------------------------------------ properties
\* A depends on B, both nodes of the input graph
DependsOn(a, b) == b \in Range(dependencies[a])

\* processor(node) has been invoked
ProcessorStarted(n) == started[n] > 0

\* processor(node) has been invoked and its promise has settled
ProcessorSettled(n) == started[n] > 0 /\ proc[n].stage \in {"settled", "done"}

\* processor(node) settled with a failure: a result with success = false, or a rejection
ProcessorFailed(n) ==
    /\ ProcessorSettled(n)
    /\ (proc[n].outcome = "rejected" \/ ~proc[n].result.success)

InFlight == {n \in Nodes : proc[n].stage = "running"}

\* the level the plan puts a node in (0-based, as node.level)
LevelOf(n) == (CHOOSE i \in 1..Len(dag.levels) : n \in Range(dag.levels[i])) - 1

\* C1: for every edge A->B of the input graph, B's processor invocation has
\* settled before A's starts, and a node of a level is started only after the
\* processors of all nodes of the lower levels have settled.
C1_DependencySettlesBeforeDependentStarts ==
    /\ \A a, b \in Nodes :
          (DependsOn(a, b) /\ ProcessorStarted(a)) => ProcessorSettled(b)
    /\ \A a, b \in Nodes :
          (ProcessorStarted(a) /\ dag.nodeLevel[b] < dag.nodeLevel[a])
             => ProcessorSettled(b)

C1_Witness ==
    \E a, b \in Nodes :
       /\ DependsOn(a, b)
       /\ concurrency > 1
       /\ proc[a].stage = "running"
       /\ ProcessorSettled(b)

\* C2: when the executor returns, results has exactly one entry for every
\* node of the input graph: no node is missing and there is no extra key.
C2_ResultsHaveEveryNode == pc = "returned" => DOMAIN results = Nodes

\* C3: in fail-fast mode, once a node's processor has failed, no node that
\* has not been started yet is started afterwards.
C3_NoStartAfterFailure ==
    [][(failFast /\ \E m \in Nodes : ProcessorFailed(m))
          => \A n \in Nodes : started[n] = 0 => started'[n] = 0]_vars

\* C4: in fail-fast mode, when the executor returns, every node that was
\* never started has an entry in results and that entry is the synthetic
\* Skipped result with success = false.
C4_UnstartedNodesGetSkippedResult ==
    (pc = "returned" /\ failFast)
       => \A n \in Nodes :
             started[n] = 0
                => (n \in DOMAIN results /\ results[n] = SkippedResult(n))

\* C5: at every moment the number of processor invocations that have
\* started and not yet settled is at most `concurrency`.
C5_InFlightAtMostConcurrency == Cardinality(InFlight) <= concurrency

C5_Witness ==
    /\ pc = "awaiting"
    /\ Cardinality(InFlight) = concurrency
    /\ itemIdx <= Len(dag.levels[levelIdx])

\* C6: the overall success flag of a returned run is true exactly when
\* every node of the graph has a result with success = true.
C6_SuccessIffAllNodesSucceeded ==
    pc = "returned"
       => (success <=> \A n \in Nodes : n \in DOMAIN results /\ results[n].success)

C6_Witness ==
    /\ pc = "returned"
    /\ ~success
    /\ \E n \in DOMAIN results : results[n].success
    /\ \E n \in DOMAIN results : ~results[n].success

\* C7: a failure of a per-node processor, a processor that raises included,
\* never makes the executor itself fail: the run returns, the failure is that
\* node's result with success = false and an error, and success is false.
C7_ProcessorFailureNeverFailsExecutor ==
    /\ pc # "rejected"
    /\ pc = "returned"
          => \A n \in Nodes :
                ProcessorFailed(n)
                   => /\ n \in DOMAIN results
                      /\ ~results[n].success
                      /\ results[n].error # "none"
                      /\ ~success

\* C8: with failFast = false, a returned run has invoked every node's
\* processor exactly once, also after failures, and failedNodes holds
\* exactly the nodes whose result has success = false.
C8_ContinueOnErrorRunsEveryNode ==
    /\ ~failFast => \A n \in Nodes : started[n] <= 1
    /\ (~failFast /\ pc = "returned")
          => /\ \A n \in Nodes : started[n] = 1
             /\ DOMAIN results = Nodes
             /\ Range(failedNodes) = {n \in Nodes : ~results[n].success}
             /\ \A n \in Nodes : Count(failedNodes, n) <= 1

C8_Witness ==
    /\ ~failFast
    /\ pc = "returned"
    /\ \E a, b \in Nodes :
          /\ DependsOn(a, b)
          /\ ~results[b].success
          /\ started[a] = 1

\* C9: for every edge A->B with both ends in the graph, a plan the leveler
\* returns puts B in a strictly lower level than A.
C9_DependencyInStrictlyLowerLevel ==
    dag.status = "ok"
       => \A a, b \in Nodes : DependsOn(a, b) => LevelOf(b) < LevelOf(a)

C9_Witness ==
    /\ dag.status = "ok"
    /\ Len(dag.levels) = NumNodes
    /\ \E a \in Nodes : Len(DepsInDag(dependencies, a)) > 1

\* C10: for every graph the leveler accepts, the levels together hold
\* exactly the nodes of the graph and each node occurs in them exactly once.
C10_EachNodeInExactlyOneLevel ==
    dag.status = "ok"
       => /\ Range(Flatten(dag.levels)) = Nodes
          /\ \A n \in Nodes : Count(Flatten(dag.levels), n) = 1

C10_Witness ==
    /\ dag.status = "ok"
    /\ Len(dag.levels) = 2
    /\ \E i \in 1..Len(dag.levels) : Len(dag.levels[i]) > 1
    /\ \E n \in Nodes : ExternalName \in Range(dependencies[n])

\* the in-graph dependencies of a node, as a set
EdgeTargets(n) == {dep \in Range(dependencies[n]) : NodesHas(dep)}

\* the nodes reached from S by at most k dependency edges
RECURSIVE ReachableFrom(_, _)
ReachableFrom(S, k) ==
    IF k = 0 THEN S
    ELSE ReachableFrom(S \cup UNION {EdgeTargets(n) : n \in S}, k - 1)

\* n lies on a dependency cycle (a self-dependency included)
OnCycle(n) == n \in ReachableFrom(EdgeTargets(n), NumNodes)

HasCycle == \E n \in Nodes : OnCycle(n)

\* C11: if the graph contains a dependency cycle, the leveler fails with the
\* cycle error and returns no plan; the error's node list is non-empty, holds
\* exactly the nodes never emitted, these are exactly the nodes left with a
\* positive in-degree, and every node lying on a cycle is among them.
C11_CycleFailsNamingUnemittedNodes ==
    (HasCycle /\ pc # "init")
       => /\ pc = "threw"
          /\ dag.status = "cycle"
          /\ dag.levels = <<>>
          /\ dag.cycleNodes # <<>>
          /\ Range(dag.cycleNodes) = {n \in Nodes : dag.nodeLevel[n] = NoLevel}
          /\ Range(dag.cycleNodes) = {n \in Nodes : dag.inDegree[n] > 0}
          /\ \A n \in Nodes : OnCycle(n) => n \in Range(dag.cycleNodes)

C11_Witness ==
    /\ pc = "threw"
    /\ NumNodes >= 3
    /\ \A n \in 1..3 : OnCycle(n)
    /\ \A n \in 1..3 : Len(dependencies[n]) = 1
    /\ {1, 2, 3} \subseteq Range(dag.cycleNodes)

\* ------------------------------------------------ aggregation properties
\* the procedures the client was called with so far
CalledProcs == {calls[i].path : i \in DOMAIN calls}

\* the run of executeAggregation has started / its promise has settled
RunStarted == clock > 0
RunReturned == RunStarted /\ Fulfilled(frames[<<>>])
RunThrew == RunStarted /\ Rejected(frames[<<>>])

\* input.key of the run is truthy
InputFlag(key) == RunStarted /\ Truthy(Field(aggregation.input, key))

\* fs.write, fs.rm, fs.mkdir, the git calls that change a repository, shell.exec
MutatingProcs ==
    {<<"fs", "write">>, <<"fs", "rm">>, <<"fs", "mkdir">>, <<"shell", "exec">>,
     <<"git", "add">>, <<"git", "commit">>, <<"git", "push">>, <<"git", "pull">>,
     <<"git", "clone">>, <<"git", "checkout">>, <<"git", "init">>}

\* C12: a workflow run with dryRun = true makes no fs.write, fs.rm or
\* fs.mkdir call, no mutating git call and no shell.exec call.
C12_DryRunMakesNoMutatingCall ==
    InputFlag("dryRun") => CalledProcs \cap MutatingProcs = {}

\* the calls of install's scan and graph-execution phase, and the clone
InstallPhaseProcs ==
    {<<"git", "clone">>, <<"lib", "scan">>, <<"dag", "execute">>,
     <<"lib", "install.single">>, <<"pnpm", "install">>, <<"pnpm", "run">>}

\* C13: install run with dryRun = true clones nothing and ends before the
\* scan and graph-execution phase: no git.clone, no scan, no graph execution
\* and so no pnpm.install or pnpm.run is issued.
C13_DryRunInstallEndsBeforeScan ==
    (InputFlag("dryRun") /\ aggregation.name = "libInstallAggregation")
       => CalledProcs \cap InstallPhaseProcs = {}

\* the calls that make up the phases of refresh.single
RefreshPhaseProcs ==
    {<<"fs", "rm">>, <<"pnpm", "install">>, <<"pnpm", "run">>,
     <<"git", "add">>, <<"git", "commit">>, <<"git", "push">>}

\* a call failed: it threw, or it returned a result with success = false
CallFailed(frame) ==
    \/ Rejected(frame)
    \/ Fulfilled(frame) /\ Field(frame.result, "success") = Bool(FALSE)

\* C14: when a call of one of the phases of refresh.single (cleanup, pnpm
\* install, build, git add/commit/push) has failed, refresh.single does not
\* return a result with success = true.
C14_FailedPhaseFailsRefreshSingle ==
    (RunStarted /\ aggregation.name = "refreshSinglePackageAggregation"
       /\ \E path \in DOMAIN frames :
             /\ frames[path].step.proc \in RefreshPhaseProcs
             /\ CallFailed(frames[path]))
       => ~(RunReturned /\ Truthy(Field(frames[<<>>].result, "success")))

\* libRefresh has returned its output
LibRefreshReturned == DOMAIN refreshOutput # {}

\* refreshSinglePackage ran for the package and reported a failure
RefreshFailed(n) == DOMAIN refreshed[n] # {} /\ ~refreshed[n].success

\* C15: the result of a refresh over many packages reports, for each package
\* whose refresh failed, that it failed and the phase it failed at, and
\* reports the packages that succeeded as successes.
C15_FailedPackagesReportedWithPhase ==
    LibRefreshReturned
       => \A n \in Nodes :
             /\ RefreshFailed(n)
                   => /\ n \in DOMAIN refreshOutput.results
                      /\ ~refreshOutput.results[n].success
                      /\ "failedPhase" \in DOMAIN refreshOutput.results[n]
                      /\ refreshOutput.results[n].failedPhase
                            = refreshed[n].failedPhase
             /\ (DOMAIN refreshed[n] # {} /\ refreshed[n].success)
                   => /\ n \in DOMAIN refreshOutput.results
                      /\ refreshOutput.results[n].success

\* the frames of the chain steps of the run
ChainFrames ==
    {path \in DOMAIN frames :
        /\ IsOperator(frames[path].step.proc, "chain")
        /\ Field(frames[path].input, "steps").t = "array"}

\* the steps of a chain frame, as declared
ChainSteps(path) == Field(frames[path].input, "steps").a

\* the frame at q was begun by the frame at p or below it
IsUnder(p, q) == Len(p) <= Len(q) /\ SubSeq(q, 1, Len(p)) = p

Settled(frame) == Fulfilled(frame) \/ Rejected(frame)

\* C16: a chain runs its steps one at a time in declaration order: the i-th
\* executeStep it makes is for its i-th declared step, and it is begun only
\* after the previous step has returned and everything begun under the
\* previous step has ended; a chain that returns returns the result of its
\* last step.
C16_ChainRunsStepsInOrder ==
    \A path \in ChainFrames :
       /\ \A i \in 1..Len(ChainSteps(path)) :
             Child(path, i) \in DOMAIN frames
                => /\ frames[Child(path, i)].step = ChainSteps(path)[i]
                   /\ i > 1
                        => /\ Child(path, i - 1) \in DOMAIN frames
                           /\ Fulfilled(frames[Child(path, i - 1)])
                           /\ \A q \in DOMAIN frames :
                                 IsUnder(Child(path, i - 1), q)
                                    => /\ Settled(frames[q])
                                       /\ frames[q].ended
                                             < frames[Child(path, i)].begun
       /\ (Fulfilled(frames[path]) /\ Len(ChainSteps(path)) > 0)
             => /\ Child(path, Len(ChainSteps(path))) \in DOMAIN frames
                /\ frames[path].result
                      = frames[Child(path, Len(ChainSteps(path)))].result

C16_Witness ==
    /\ RunReturned
    /\ aggregation.name = "gitCommitAndPushAggregation"
    /\ [i \in DOMAIN calls |-> calls[i].path]
          = <<(<<"git", "add">>), (<<"git", "commit">>), (<<"git", "push">>)>>
    /\ Field(frames[<<>>].result, "success") = Bool(TRUE)

\* the frames that began the frame at q, from the aggregation down
Enclosing(q) == {SubSeq(q, 1, n) : n \in 0..(Len(q) - 1)}

\* the frame at q failed and no enclosing tryCatch is there to catch it
Uncaught(q) ==
    /\ Rejected(frames[q])
    /\ \A p \in Enclosing(q) : ~IsOperator(frames[p].step.proc, "tryCatch")

\* nothing of the run is in flight: no call is pending and no step can go on
Quiescent ==
    \A p \in DOMAIN frames :
       frames[p].status # "calling" /\ ~CanResume(frames, p)

\* C17: when a step raises and no enclosing tryCatch catches it, every
\* enclosing step that settles fails with that error, no enclosing chain (or
\* map) begins a later step, and once nothing is in flight any more the
\* aggregation itself has failed; in
\* pnpm.installAndBuild a failed install means that the run does not return
\* and pnpm run build is never called.
C17_UncaughtFailurePropagates ==
    /\ \A q \in DOMAIN frames :
          Uncaught(q)
             => \A p \in Enclosing(q) :
                   /\ Settled(frames[p])
                         => Rejected(frames[p]) /\ frames[p].result = frames[q].result
                   /\ (IsOperator(frames[p].step.proc, "chain")
                         \/ IsOperator(frames[p].step.proc, "map"))
                         => \A c \in DOMAIN frames :
                               (Len(c) = Len(p) + 1 /\ IsUnder(p, c))
                                  => c[Len(c)] <= q[Len(c)]
    /\ (Quiescent /\ \E q \in DOMAIN frames : Uncaught(q)) => RunThrew
    /\ (RunStarted /\ aggregation.name = "pnpmInstallAndBuildAggregation"
          /\ CallFailed(frames[<<1>>]))
          => ~RunReturned /\ <<"pnpm", "run">> \notin CalledProcs

C17_Witness ==
    /\ RunThrew
    /\ aggregation.name = "pnpmInstallAndBuildAggregation"
    /\ Fulfilled(frames[<<1>>])
    /\ Field(frames[<<1>>].result, "success") = Bool(FALSE)
    /\ frames[<<>>].result
          = Error(Str("pnpm install failed: "), <<>>)
    /\ CalledProcs = {<<"pnpm", "install">>}

\* the tryCatch frames whose try step has failed and that have gone on
CaughtFrames ==
    {path \in DOMAIN frames :
        /\ IsOperator(frames[path].step.proc, "tryCatch")
        /\ Settled(frames[path])
        /\ Rejected(frames[Child(path, 1)])}

\* C18: a tryCatch whose try step failed does not fail: it returns its catch
\* when catch is a plain value, and when catch is a step it returns what
\* executing that step gives (for an identity step, the step's input),
\* never the step definition itself.
C18_TryCatchYieldsCatch ==
    \A path \in CaughtFrames :
       LET catch == Field(frames[path].input, "catch")
       IN /\ Fulfilled(frames[path])
          /\ catch.t # "step" => frames[path].result = catch
          /\ catch.t = "step" => frames[path].result # catch
          /\ (catch.t = "step" /\ IsOperator(catch.proc, "identity"))
                => frames[path].result = resolveInput(catch.input, context)

\* the parallel frames that have failed
FailedParallelFrames ==
    {path \in DOMAIN frames :
        /\ IsOperator(frames[path].step.proc, "parallel")
        /\ Rejected(frames[path])
        /\ Field(frames[path].input, "tasks").t = "array"}

\* C19: a parallel that fails fails with the error of its first failing
\* task, and only after every one of its tasks has settled: no task is
\* still running when the parallel reports the failure.
C19_ParallelFailsAfterAllSettled ==
    \A path \in FailedParallelFrames :
       /\ frames[path].result
             = frames[Child(path, FirstRejected(frames, path))].result
       /\ \A i \in 1..NumTasks(frames[path]) :
             /\ Settled(frames[Child(path, i)])
             /\ frames[Child(path, i)].ended < frames[path].ended

\* the references of a step input as written, each with the value it has
\* in the resolved input (step definitions inside the input stay unresolved)
RECURSIVE RefPairs(_, _)
RefPairs(raw, resolved) ==
    CASE raw.t = "ref" ->
           {[path |-> raw.path, invert |-> raw.invert, value |-> resolved]}
      [] raw.t = "object" /\ resolved.t = "object" ->
           UNION {RefPairs(raw.f[key], resolved.f[key]) : key \in DOMAIN raw.f}
      [] raw.t = "array" /\ resolved.t = "array" ->
           UNION {RefPairs(raw.a[i], resolved.a[i]) : i \in DOMAIN raw.a}
      [] OTHER -> {}

\* what a reference with the given path gives when its first part names value
Resolved(pair, value) ==
    IF pair.invert THEN Bool(~Truthy(WalkPath(value, Tail(pair.path))))
    ELSE WalkPath(value, Tail(pair.path))

\* the frames of the steps named name that have returned
Returned(name) ==
    {g \in DOMAIN frames : frames[g].step.name = name /\ Fulfilled(frames[g])}

\* the frame at g is the last step named name to have returned before tick
LastReturnedBefore(g, name, tick) ==
    /\ g \in Returned(name)
    /\ frames[g].ended < tick
    /\ \A h \in Returned(name) \ {g} :
          frames[h].ended < frames[g].ended \/ frames[h].ended >= tick

\* C20: when a named step returns, its result is bound under its name in the
\* context; every step begun later, at any depth of nesting, whose input
\* refers to that name gets that step's result there, and a reference to
\* input.x gets the aggregation's top-level input.
C20_NamedResultsAreShared ==
    /\ \A g \in DOMAIN frames :
          (Fulfilled(frames[g]) /\ frames[g].step.name # "")
             => /\ frames[g].step.name \in DOMAIN context
                /\ LastReturnedBefore(g, frames[g].step.name, clock + 1)
                      => context[frames[g].step.name] = frames[g].result
    /\ \A f \in DOMAIN frames :
          \A pair \in RefPairs(frames[f].step.input, frames[f].input) :
             /\ Head(pair.path) = "input"
                   => pair.value = Resolved(pair, aggregation.input)
             /\ \A g \in DOMAIN frames :
                   LastReturnedBefore(g, Head(pair.path), frames[f].begun)
                      => pair.value = Resolved(pair, frames[g].result)

C20_Witness ==
    /\ RunStarted
    /\ aggregation.name = "crossBoundaryRef"
    /\ <<2, 1>> \in DOMAIN frames
    /\ frames[<<2, 1>>].input = Obj([value |-> Num(42)])
    /\ context["firstStep"] = Obj([computedValue |-> Num(42)])
    /\ \E i \in DOMAIN calls :
          calls[i].path = <<"test", "useValue">>
             /\ calls[i].input = Obj([value |-> Num(42)])

\* ------------------------------------------------ resolveInput properties
\* obj with each reference replaced by what its path leads to in the context,
\* negated when invert is set, and everything else as it is
RECURSIVE SubstituteByLookup(_, _)
SubstituteByLookup(obj, ctx) ==
    CASE obj.t = "ref" ->
           LET value == WalkPath(Obj(ctx), obj.path)
           IN IF obj.invert THEN Bool(~Truthy(value)) ELSE value
      [] obj.t = "array" ->
           Arr([i \in DOMAIN obj.a |-> SubstituteByLookup(obj.a[i], ctx)])
      [] obj.t = "object" ->
           Obj([key \in DOMAIN obj.f |-> SubstituteByLookup(obj.f[key], ctx)])
      [] OTHER -> obj

\* C21: resolving an input made only of literals and references gives the
\* same input with each reference replaced by the value its dotted path leads
\* to in the context (negated when invert is set), the missing marker when
\* the path cannot be followed.
C21_ResolvedIsSubstitutionByLookup ==
    resolveResult # <<>>
       => resolveResult = SubstituteByLookup(resolveArg.obj, resolveArg.ctx)

\* ------------------------------------------------ refresh.single properties
\* the calls a procedure has made, whichever way it is run: the procedure
\* called, when the call was issued, when it settled (0: not yet), whether
\* it failed
ClientCalls ==
    IF refreshing # <<>>
    THEN {refreshing.log[i] : i \in DOMAIN refreshing.log}
    ELSE IF creating # <<>>
    THEN {creating.log[i] : i \in DOMAIN creating.log}
    ELSE {[proc |-> frames[path].step.proc, input |-> frames[path].input,
           begun |-> frames[path].begun, ended |-> frames[path].ended,
           failed |-> CallFailed(frames[path]),
           result |-> frames[path].result] :
            path \in {q \in DOMAIN frames :
                        /\ frames[q].step.proc # <<>>
                        /\ frames[q].step.proc[1] # "client"}}

\* the place of a procedure in the order of refresh.single, 0 for a call
\* that changes nothing (fs.exists, git.status)
PhaseRank(p) ==
    CASE p = <<"fs", "rm">> -> 1
      [] p = <<"pnpm", "install">> -> 2
      [] p = <<"pnpm", "run">> -> 3
      [] p = <<"git", "add">> -> 4
      [] p = <<"git", "commit">> -> 5
      [] p = <<"git", "push">> -> 6
      [] OTHER -> 0

\* the run is one of refresh.single, not of the cleanup alone
IsRefreshSingle ==
    \/ refreshing # <<>>
    \/ aggregation.name = "refreshSinglePackageAggregation"

\* the options of the run
SingleOption(key) ==
    IF refreshing # <<>> THEN refreshing.options[key]
    ELSE Truthy(Field(aggregation.input, key))

\* C22: refresh.single issues its calls in the order cleanup removals (only
\* when force), pnpm install, pnpm run build, then (unless skipGit) git add,
\* git commit, git push, each after the previous one completed; it issues no
\* build after a failed install and no git call after a failed install or
\* build.
C22_RefreshSingleCallOrder ==
    IsRefreshSingle =>
    \A c \in ClientCalls, d \in ClientCalls :
       /\ c # d => (c.begun # d.begun
                     /\ (c.begun < d.begun => c.ended # 0 /\ c.ended <= d.begun))
       /\ (c.begun < d.begun /\ PhaseRank(c.proc) > 0 /\ PhaseRank(d.proc) > 0)
             => /\ PhaseRank(c.proc) <= PhaseRank(d.proc)
                /\ PhaseRank(d.proc) > 1 => PhaseRank(c.proc) < PhaseRank(d.proc)
       /\ PhaseRank(c.proc) = 1 => SingleOption("force")
       /\ PhaseRank(c.proc) >= 4 => ~SingleOption("skipGit")
       /\ (c.failed /\ PhaseRank(c.proc) \in {2, 3} /\ c.begun < d.begun)
             => PhaseRank(d.proc) = 0

\* the function has removed, installed and built, and returns after a build
\* that failed
C22_Witness ==
    /\ refreshing # <<>>
    /\ refreshing.stmt.op = "return"
    /\ {PhaseRank(c.proc) : c \in ClientCalls} = 0..3
    /\ \E c \in ClientCalls : c.proc = <<"pnpm", "run">> /\ c.failed

\* ------------------------------------------------ cleanup properties
\* the run has ended, and whether it ended well: the function returned
\* success = true, the aggregation returned
RunEnded ==
    IF refreshing # <<>> THEN refreshing.stmt.op = "return"
    ELSE RunReturned \/ RunThrew

RunSucceeded ==
    IF refreshing # <<>> THEN RunEnded /\ refreshing.result.success
    ELSE RunReturned /\ Truthy(Field(frames[<<>>].result, "success"))

\* the run is one that cleans up: the cleanup aggregation, or a forced
\* refreshSinglePackage that is not a dry run
RunsCleanup ==
    \/ refreshing # <<>> /\ refreshing.options.force /\ ~refreshing.options.dryRun
    \/ refreshing = <<>> /\ aggregation.name = "forceCleanupAggregation"

CleanupProcs == {<<"fs", "exists">>, <<"fs", "rm">>}

\* the calls made about the cleanup path file
CallsOn(file) ==
    {c \in ClientCalls :
       /\ c.proc \in CleanupProcs
       /\ Field(c.input, "path") = Str(JoinPath(SinglePkgPath, file))}

\* C23: the forced cleanup removes a path only after finding it present; when
\* a call about one path has failed, the run still ends having tried every
\* one of node_modules, dist, pnpm-lock.yaml and tsconfig.tsbuildinfo, and
\* it does not fail unless something other than the cleanup failed.
C23_CleanupIsBestEffort ==
    RunsCleanup =>
       /\ \A c \in ClientCalls :
             c.proc = <<"fs", "rm">>
                => \E e \in CallsOn(CleanupPaths[1]) \cup CallsOn(CleanupPaths[2])
                         \cup CallsOn(CleanupPaths[3]) \cup CallsOn(CleanupPaths[4]) :
                      /\ e.proc = <<"fs", "exists">>
                      /\ e.input = Obj([path |-> Field(c.input, "path")])
                      /\ e.ended # 0 /\ e.ended <= c.begun /\ ~e.failed
       /\ (RunEnded /\ \E c \in ClientCalls : c.proc \in CleanupProcs /\ c.failed)
             => /\ \A i \in DOMAIN CleanupPaths : CallsOn(CleanupPaths[i]) # {}
                /\ (\A c \in ClientCalls : c.failed => c.proc \in CleanupProcs)
                      => RunSucceeded

C25_EnsureDirIsIdempotent ==
    (ensureRun # <<>> /\ ensureRun.n = 2)
       => /\ Field(aggregation.input, "path").s \in ensureRun.before
          /\ folders = ensureRun.before
          /\ <<"fs", "mkdir">> \notin CalledProcs

\* the first invocation made the directory and the second has returned
C25_Witness ==
    /\ ensureRun # <<>>
    /\ ensureRun.n = 2
    /\ RunReturned
    /\ Field(ensureRun.first, "created") = Bool(TRUE)
    /\ Field(frames[<<>>].result, "created") = Bool(FALSE)

\* ------------------------------------------------ lib.new properties
\* fs.exists has answered that the package path exists
TargetExists ==
    \E c \in ClientCalls :
       /\ c.proc = <<"fs", "exists">>
       /\ c.input = Obj([path |-> Str(NewPackagePath)])
       /\ c.ended # 0
       /\ Field(c.result, "exists") = Bool(TRUE)

\* lib.new is over / is over with success = true
NewEnded ==
    IF creating # <<>> THEN creating.stmt \in {"return", "rejected"}
    ELSE RunReturned \/ RunThrew

NewSucceeded ==
    IF creating # <<>> THEN creating.stmt = "return" /\ creating.success
    ELSE RunReturned

\* C26: when the package path already exists, new makes no fs.mkdir,
\* fs.write, shell.exec or git call (nor any other call that changes
\* something), and it does not end with success.
C26_NewFailsOnExistingTarget ==
    TargetExists
       => /\ \A c \in ClientCalls :
                c.proc \notin MutatingProcs \cup {<<"lib", "manifest.add">>}
          /\ ~NewSucceeded

\* libNew has returned after finding the package path there
C26_Witness ==
    /\ creating # <<>>
    /\ TargetExists
    /\ NewEnded
    /\ ~creating.success

\* ------------------------------------------------ dag.traverse properties
\* the packages S depends on, directly or through other packages
RECURSIVE DependencyClosure(_, _)
DependencyClosure(deps, S) ==
    LET T == S \cup UNION {Range(deps[n]) \cap Nodes : n \in S}
    IN IF T = S THEN S ELSE DependencyClosure(deps, T)

\* the packages n depends on, directly or transitively
AllDependencies(deps, n) == DependencyClosure(deps, Range(deps[n]) \cap Nodes)

\* dagTraverse has selected its packages
Selecting == traversing # <<>> /\ traversing.phase # "idle"

\* the packages the traversal selected
Selected == Range(traversing.allNodes)

\* the visit procedure was called for the package: the function given to
\* createProcessor reaches ctx.client.call in the turn the processor is invoked
VisitCalled(n) == ~traversing.input.dryRun /\ started[n] > 0

\* the call of the visit procedure for the package has settled
VisitEnded(n) == VisitCalled(n) /\ proc[n].stage \in {"settled", "done"}

\* C27: dag.traverse calls the visit procedure at most once per package,
\* only for selected packages, for every selected package when the traversal
\* succeeds, and for a package only after the visit of every selected package
\* it depends on, directly or transitively, has ended - also under filter or root
C27_VisitsInDependencyOrder ==
    Selecting =>
        /\ \A n \in Nodes : started[n] <= 1 /\ (VisitCalled(n) => n \in Selected)
        /\ traversing.phase = "returned" /\ traversing.output.success
              /\ ~traversing.input.dryRun
           => \A n \in Selected : VisitEnded(n)
        /\ \A n \in Selected : VisitCalled(n) =>
              \A m \in Selected \cap AllDependencies(dependencies, n) : VisitEnded(m)

\* C28: with root = R the visit procedure is called only for packages that
\* depend on R (R itself allowed)
C28_RootVisitsDependentsOnly ==
    Selecting /\ traversing.input.root # NoRoot =>
        \A n \in Nodes : VisitCalled(n) =>
            \/ n = traversing.input.root
            \/ traversing.input.root \in AllDependencies(dependencies, n)

\* ------------------------------------------------ shell properties
\* C29: every spawn is made with the timeout of its helper (install 5 min,
\* build 2 min, directory remove 30 s, file remove 10 s) and an armed timer;
\* once the timer has fired the process has been sent SIGTERM and the call is
\* rejected with the timeout error, whatever the process does afterwards; a
\* call never settles twice
C29_SpawnsTimeOutOnce ==
    spawned # <<>> /\ spawned.stage = "spawned" =>
        /\ spawned.timeout = CASE spawned.helper = "pnpmInstall" -> 5 * 60 * 1000
                               [] spawned.helper = "pnpmBuild" -> 2 * 60 * 1000
                               [] spawned.helper = "removeDir" -> 30 * 1000
                               [] spawned.helper = "removeFile" -> 10 * 1000
        /\ spawned.timer # "none"
        /\ spawned.timer = "fired" =>
              /\ spawned.killed
              /\ spawned.promise.state = "rejected"
              /\ spawned.promise.value = [timedOut |-> spawned.timeout]
        /\ spawned.promise.settlements <= 1

\* the timer fired and the process, killed, has exited since with code 0
C29_Witness ==
    /\ spawned # <<>>
    /\ spawned.timer = "fired"
    /\ spawned.process = "closed"
    /\ spawned.code = 0
    /\ spawned.promise.state = "rejected"

\* ------------------------------------------------ callback properties
\* C30: the callbacks only observe.  With a processor made by createProcessor,
\* which never rejects, a run without callbacks invokes the processor for
\* every node it reaches unless the run was stopped, rejects no per-node
\* promise and returns; so must a run with callbacks, whatever they do
C30_CallbacksOnlyObserve ==
    wrapped =>
        /\ pc # "rejected"
        /\ \A n \in Nodes :
              /\ proc[n].outcome # "rejected"
              /\ proc[n].stage # "idle" /\ proc[n].result # SkippedResult(n)
                 => started[n] = 1

\* ------------------------------------------------ level properties
\* the largest member of a non-empty set of numbers
Maximum(S) == CHOOSE x \in S : \A y \in S : y <= x

\* C31: in a plan the leveler returns, a node is in level 0 exactly when it
\* has no dependency inside the graph, and otherwise its level is 1 + the
\* largest level of its in-graph dependencies (its longest-path distance from
\* the leaves); node.level and the position in levels agree
C31_LevelIsLongestPathFromLeaves ==
    dag.status = "ok" =>
        \A n \in Nodes :
            /\ dag.nodeLevel[n] = LevelOf(n)
            /\ LevelOf(n) = 0 <=> EdgeTargets(n) = {}
            /\ EdgeTargets(n) # {} =>
                  LevelOf(n) = 1 + Maximum({LevelOf(m) : m \in EdgeTargets(n)})

\* a node whose two in-graph dependencies lie in different levels, and a
\* node that lists a name outside the graph
C31_Witness ==
    /\ dag.status = "ok"
    /\ \E n \in Nodes : \E a, b \in EdgeTargets(n) : LevelOf(a) < LevelOf(b)
    /\ \E n \in Nodes : ExternalName \in Range(dependencies[n])

\* C39: the leveler throws the cycle error only for a graph that has a
\* dependency cycle; every acyclic graph is leveled, also when a dependency
\* is listed more than once or is no node of the graph
C39_CycleErrorOnlyOnCycle ==
    (pc # "init" /\ ~HasCycle) => (pc = "planned" /\ dag.status = "ok")

\* ------------------------------------------------ pool properties
\* executeDAG has settled, or was never called because leveling threw
RunOver == pc \in {"returned", "rejected", "threw"}

\* C40: executeWithConcurrency returns a level's results, and executeDAG
\* returns, only when no started processor is still in flight; and once every
\* started processor settles the run comes to an end, for every concurrency
\* and every level size
C40_PoolTerminatesWithNothingInFlight ==
    /\ [](pc \in {"levelLoop", "returned"} => InFlight = {})
    /\ <>RunOver

\* a run has returned after a level larger than the pool made it wait
C40_Witness ==
    /\ pc = "returned"
    /\ \E i \in DOMAIN dag.levels : Len(dag.levels[i]) > concurrency
    /\ \A n \in Nodes : ProcessorSettled(n)

\* ------------------------------------------------ install result properties
\* libInstall has returned after going through the manifest
InstallReturned ==
    /\ installRun # <<>>
    /\ installRun.phase = "returned"
    /\ installRun.idx > NumNodes

\* every package of the manifest is on disk, and pnpm install and the build
\* of every package ran in this call and succeeded
EveryPackageInstalled ==
    \A pkg \in Nodes :
        /\ pkg \in disk
        /\ started[pkg] = 1
        /\ proc[pkg].stage = "done"
        /\ proc[pkg].result.success

\* Phase 1 went through every entry of the manifest, and outside a dry run
\* every package that is still missing has its failed clone in errors
ClonePhaseComplete ==
    /\ Len(installRun.cloned) + Len(installRun.skipped) + Len(installRun.errors)
          = NumNodes
    /\ ~installRun.input.dryRun => Range(installRun.errors) = Nodes \ disk

C37_FailedPullIsNotASuccess ==
    (RunStarted /\ aggregation.name = "pullSinglePackageAggregation"
       /\ \E path \in DOMAIN frames :
             /\ frames[path].step.proc = <<"git", "pull">>
             /\ CallFailed(frames[path]))
       => ~(RunReturned /\ Truthy(Field(frames[<<>>].result, "success")))


\* ------------------------------------------------ lib.rename properties
\* both renames have been applied to the tree, not as a dry run
RenamedBack == renaming.step = "back" /\ ~renaming.dryRun

\* C35: renaming old -> new and then new -> old over the same tree leaves
\* every file as it was: package.json with the same entries in the same
\* order (what is left of its bytes once JSON.stringify has normalised the
\* whitespace), the TypeScript file with the same text.
C35_RenameRoundTrip == RenamedBack => renaming.tree = renaming.original


\* ------------------------------------------------ registry properties
\* C32: looking up an aggregation by path is exact: an entry is returned
\* only when the path given equals the registered path segment for segment;
\* a prefix of a registered path, or any other different path, yields
\* nothing.
C32_LookupIsExact ==
    found.called =>
        IF found.path \in RegistryPaths
        THEN found.result = <<found.path>>
        ELSE found.result = <<>>


\* how often a string occurs in a list
Occurrences(list, str) == Cardinality({i \in 1..Len(list) : list[i] = str})

\* the entry is in exactly one of registered, skipped and errors, once
InExactlyOneList(path) ==
    Occurrences(registering.registered \o registering.skipped \o registering.errors,
                JoinDots(path)) = 1

\* C33: registerAggregationProcedures never raises because a registration
\* failed: it goes on with the remaining entries, and when it returns every
\* entry of the registry is in exactly one of registered, skipped (the
\* entries the filter rejected) and errors (the entries whose registration
\* failed).
C33_RegistrationFailuresAreCollected ==
    /\ registering.state = "rejected" => registering.filterThrew
    /\ registering.state = "returned" =>
        \A path \in RegistryPaths :
            /\ InExactlyOneList(path)
            /\ JoinDots(path) \in Range(registering.skipped)
                   <=> FilterRejects(registering.filter, path)
            /\ JoinDots(path) \in Range(registering.errors)
                   <=> (~FilterRejects(registering.filter, path)
                        /\ path \in registering.failing)

\* a run that returned after a failed registration, a later successful
\* one and a skipped entry
C33_Witness ==
    /\ registering.state = "returned"
    /\ registering.skipped # <<>>
    /\ \E i \in 1..Len(registering.defined) :
        /\ registering.defined[i] \in registering.failing
        /\ \E j \in (i + 1)..Len(registering.defined) :
            registering.defined[j] \notin registering.failing


\* ------------------------------------------------ filterDAGFromRoot properties
\* the nodes reachable from the name over dependencies edges, the name
\* itself included when it is a node
PrerequisitesOf(deps, name) ==
    IF name \in Nodes THEN DependencyClosure(deps, {name}) ELSE {}

\* what the call returned is exactly the reachable nodes, each once
ReturnsReachable ==
    filtering.called =>
        LET returned == Range(filtering.result)
        IN /\ returned = PrerequisitesOf(filtering.deps, filtering.rootName)
           /\ Len(filtering.result) = Cardinality(returned)
           /\ \A n \in returned : Range(filtering.deps[n]) \cap Nodes \subseteq returned
           /\ filtering.rootName \in Nodes => filtering.rootName \in returned

\* C34: filterDAGFromRoot(nodes, name) returns exactly the nodes reachable
\* from name over dependencies edges, name included when it is a node: every
\* dependency of a returned node that is a node is returned, no node that
\* is not a prerequisite of name is returned, and the walk ends on any
\* input, cyclic ones included.
C34_FilterFromRootIsReachability ==
    /\ []ReturnsReachable
    /\ <>(filtering.called)

\* the walk has ended on a Map with a cycle through the root, and has
\* left out a node
C34_Witness ==
    /\ filtering.called
    /\ filtering.rootName \in Nodes
    /\ filtering.rootName \in AllDependencies(filtering.deps, filtering.rootName)
    /\ Len(filtering.result) > Len(<<filtering.rootName>>)
    /\ Len(filtering.result) < NumNodes


\* ------------------------------------------------ core.catch properties
\* the procedure has been called: the try procedure, the handler
CatchCalled(called) ==
    \E i \in 1..Len(catching.calls) : catching.calls[i].proc = called

\* C36: core.catch never propagates a failure of the try procedure or of
\* the handler: it rejects only for a try that is no procedure ref or a
\* rejected hydration. A successful try yields success = true and continue
\* = true; a failed try without a handler yields success = false and
\* continue = false; a failed try whose handler resolved yields the
\* handler's continue (false when it gives none); a handler that failed
\* yields continue = false.
C36_CatchNeverPropagates ==
    /\ catching.state = "rejected" => catching.cause \in {"validation", "hydration"}
    /\ catching.stmt = "end" /\ CatchCalled("try") /\ ~catching.tryFailed =>
          catching.state = "returned" /\ catching.output = TrySucceeded
    /\ catching.stmt = "end" /\ catching.tryFailed /\ catching.input.handler # "ref" =>
          /\ catching.state = "returned"
          /\ ~catching.output.success /\ catching.output.continue = FALSE
    /\ catching.stmt = "end" /\ CatchCalled("handler") =>
          /\ catching.state = "returned"
          /\ ~catching.output.success
          /\ catching.output.continue =
               IF catching.handlerFailed \/ catching.decision = <<>>
               THEN FALSE
               ELSE catching.decision[1].continue = "true"

\* the try procedure failed, the handler was called and failed too, and
\* core.catch returned
C36_Witness ==
    /\ catching.state = "returned"
    /\ catching.tryFailed
    /\ catching.handlerFailed

====
